---- MODULE Spec2Model ----
(***************************************************************************)
(* A model of the apartment finder's state tracking and orchestration:     *)
(* the seen_listings store of DeduplicationService                          *)
(* (services/deduplication.py), ApartmentFinder.run (main.py), and the      *)
(* ScoringService (services/scoring.py) and CurrencyService                 *)
(* (services/currency.py) called on their own.                              *)
(***************************************************************************)
EXTENDS Integers, Sequences, FiniteSets, TLC

\* ------------------------------------------------------------------ bounds
\* clock ticks per second: the sub-second resolution of datetime.utcnow()
TicksPerSecond == 2
\* how often the clock may advance in one behaviour
MaxTicks == 2
\* how many orchestrator runs one behaviour may hold
MaxRuns == 1
\* longest batch handed to one DeduplicationService call
MaxBatch == 2

\* ---------------------------------------------------------- optional values
\* Python's None and a present value
None == <<>>
Some(x) == <<x>>

\* ------------------------------------------------------------------- time
Second == TicksPerSecond
Day == 86400 * Second
\* DeduplicationService.EXPIRY_DAYS
EXPIRY_DAYS == 30

\* SQLite's CURRENT_TIMESTAMP has whole-second resolution
CURRENT_TIMESTAMP(t) == t - (t % Second)
\* datetime.utcnow() keeps the sub-second part
utcnow(t) == t

\* the clock advances by one tick or by the expiry period
TickSteps == {1, EXPIRY_DAYS * Day}

\* ------------------------------------------------------------- apartments
\* models/apartment.py: an Apartment. Money is in hundredths of the currency
\* unit; amenities is the set of Amenities flags that are true; text is the
\* set of location signals that occur in neighborhood + description.
Apartment(source_id, source_name, city, title, url, price_local, currency, price_usd, sqft, amenities, text, posted_date) ==
    [source_id |-> source_id, source_name |-> source_name, city |-> city,
     title |-> title, url |-> url, price_local |-> price_local,
     currency |-> currency, price_usd |-> price_usd, sqft |-> sqft,
     amenities |-> amenities, text |-> text, posted_date |-> posted_date,
     score |-> None, score_breakdown |-> None]

\* listings the sources can show
AptA ==
    Apartment("a", "craigslist", "nyc", "Apt a", "u/a", Some(300000), "USD",
              Some(300000), Some(800), {"laundry_in_unit", "dishwasher"},
              {"quiet"}, Some(0))
\* "a" again, edited by its owner between fetches
AptA2 ==
    Apartment("a", "craigslist", "nyc", "Apt a (reduced)", "u/a",
              Some(280000), "USD", Some(280000), Some(800),
              {"laundry_in_unit", "dishwasher"}, {"quiet"}, Some(0))
\* priced in AED, not yet converted
AptB ==
    Apartment("b", "bayut", "dubai", "Apt b", "u/b", Some(1200000), "AED",
              None, None, {"laundry_in_building", "dishwasher", "gym"},
              {}, None)
AptC ==
    Apartment("c", "streeteasy", "nyc", "Apt c", "u/c", Some(350000), "USD",
              Some(350000), Some(1200),
              {"laundry_in_unit", "dishwasher", "doorman"}, {"subway"}, None)
\* the adapter could not parse the price
AptD ==
    Apartment("d", "bayut", "dubai", "Apt d", "u/d", None, "AED",
              None, Some(900), {"laundry_in_unit", "dishwasher"}, {}, None)
\* lacks a must-have
AptE ==
    Apartment("e", "craigslist", "nyc", "Apt e", "u/e", Some(260000), "USD",
              Some(260000), None, {"laundry_in_unit"}, {}, None)

\* the listings tried on the store directly
Catalog == {AptA, AptA2, AptB}

SourceIds == {apt.source_id : apt \in Catalog}

\* the batches tried: up to MaxBatch different listings, in any order
BoundedSeq(S, n) ==
    {q \in UNION {[1..k -> S] : k \in 0..n} :
        \A i, j \in DOMAIN q : i # j => q[i] # q[j]}
Batches == BoundedSeq(Catalog, MaxBatch)

VARIABLES
    store,    \* seen_listings: source_id -> row
    now,      \* the wall clock, in ticks
    ticks,    \* how often the clock advanced
    op,       \* the last call made and what it returned
    \* ApartmentFinder.run
    pc,               \* where the run is
    config,           \* the arguments of run and the loaded configuration
    city_idx,         \* position of the loop over config["cities"]
    source_idx,       \* position of the loop over city_config["sources"]
    all_apartments,   \* _process_city: the listings accumulated so far
    city_new_apartments,  \* _process_city: what filter_new_listings returned
    results_by_city,  \* run: display name -> scored listings, in insertion order
    currency_service, \* the CurrencyService of the run
    runs,             \* how many runs were started
    ev,               \* the last step of the run and what happened in it
    mail,             \* what the email step of the run did
    cleanups,         \* how often the run called cleanup_old_listings
    \* the services called on their own
    scoring_service,  \* the ScoringService last constructed, if it was
    calc              \* the last call of a scoring or currency function

storeVars == <<store, now, ticks, op>>
runVars == <<pc, config, city_idx, source_idx, all_apartments,
             city_new_apartments, results_by_city, currency_service, runs,
             ev, mail, cleanups>>
calcVars == <<scoring_service, calc>>
vars == <<store, now, ticks, op, pc, config, city_idx, source_idx,
          all_apartments, city_new_apartments, results_by_city,
          currency_service, runs, ev, mail, cleanups, scoring_service, calc>>

\* ----------------------------------------------------------- transactions
\* mutant of Rollback: the statements already executed stay (autocommit)
Rollback_KeepsStatements(db, txn) == txn
\* conn.rollback(): the database is as it was when the connection opened
Rollback(db, txn) == db
\* conn.commit(): the statements of the transaction become the database
Commit(db, txn) == txn
\* _get_connection: commit when the body ends normally, roll back and
\* re-raise when it raises
get_connection(db, txn, raised) ==
    IF raised THEN Rollback(db, txn) ELSE Commit(db, txn)

\* ----------------------------------------------------- the SQL statements
\* mutant of InsertRow: last_seen_at is written by the Python clock
InsertRow_SeenNow(conn, apt, t) ==
    conn @@ (apt.source_id :>
        [source_name |-> apt.source_name, city |-> apt.city,
         title |-> apt.title, price_usd |-> apt.price_usd, url |-> apt.url,
         first_seen_at |-> CURRENT_TIMESTAMP(t),
         last_seen_at |-> utcnow(t),
         sent_in_email |-> FALSE, sent_at |-> None])

\* INSERT INTO seen_listings (source_id, source_name, city, title, price_usd,
\* url): the other columns take their defaults
InsertRow(conn, apt, t) ==
    conn @@ (apt.source_id :>
        [source_name |-> apt.source_name, city |-> apt.city,
         title |-> apt.title, price_usd |-> apt.price_usd, url |-> apt.url,
         first_seen_at |-> CURRENT_TIMESTAMP(t),
         last_seen_at |-> CURRENT_TIMESTAMP(t),
         sent_in_email |-> FALSE, sent_at |-> None])

\* mutant of UpdateLastSeen: the row is replaced, its sent state is lost
UpdateLastSeen_Replace(conn, source_id, t) ==
    [conn EXCEPT ![source_id].last_seen_at = utcnow(t),
                 ![source_id].sent_in_email = FALSE,
                 ![source_id].sent_at = None]
\* UPDATE seen_listings SET last_seen_at = ? WHERE source_id = ?
UpdateLastSeen(conn, source_id, t) ==
    [conn EXCEPT ![source_id].last_seen_at = utcnow(t)]

\* mutant of UpdateSent: a missing row is created as sent
UpdateSent_Upsert(conn, source_id, t) ==
    IF source_id \in DOMAIN conn
    THEN [conn EXCEPT ![source_id].sent_in_email = TRUE,
                      ![source_id].sent_at = Some(t)]
    ELSE conn @@ (source_id :>
            [source_name |-> "", city |-> "", title |-> "",
             price_usd |-> None, url |-> "",
             first_seen_at |-> CURRENT_TIMESTAMP(t),
             last_seen_at |-> CURRENT_TIMESTAMP(t),
             sent_in_email |-> TRUE, sent_at |-> Some(t)])

\* UPDATE seen_listings SET sent_in_email = TRUE, sent_at = ? WHERE source_id = ?
UpdateSent(conn, source_id, t) ==
    IF source_id \in DOMAIN conn
    THEN [conn EXCEPT ![source_id].sent_in_email = TRUE,
                      ![source_id].sent_at = Some(t)]
    ELSE conn

\* DELETE FROM seen_listings WHERE last_seen_at < ?
DeleteOlder(conn, cutoff) ==
    [s \in {x \in DOMAIN conn : ~(conn[x].last_seen_at < cutoff)} |-> conn[s]]

\* DELETE FROM seen_listings
DeleteAll(conn) == [s \in {} |-> conn[s]]

\* ------------------------------------------------- filter_new_listings
\* mutant of AlreadySent: every listing seen before counts as sent
AlreadySent_AnySeen(row) == TRUE
\* row["sent_in_email"] of a row that exists
AlreadySent(row) == row.sent_in_email

\* the loop over the batch: conn is the open transaction
RECURSIVE FilterRows(_, _, _, _)
FilterRows(conn, new_apartments, rest, t) ==
    IF rest = <<>>
    THEN [conn |-> conn, new_apartments |-> new_apartments]
    ELSE LET apt == Head(rest) IN
         IF apt.source_id \notin DOMAIN conn
         THEN FilterRows(InsertRow(conn, apt, t),
                         Append(new_apartments, apt), Tail(rest), t)
         ELSE IF ~AlreadySent(conn[apt.source_id])
         THEN FilterRows(UpdateLastSeen(conn, apt.source_id, t),
                         Append(new_apartments, apt), Tail(rest), t)
         ELSE FilterRows(UpdateLastSeen(conn, apt.source_id, t),
                         new_apartments, Tail(rest), t)

\* failAt = 0: no database error; failAt = k: the statements for the k-th
\* apartment raise (k = Len + 1: the commit raises)
FilterNewListings(db, apartments, failAt, t) ==
    IF apartments = <<>>
    THEN [db |-> db, raised |-> FALSE, result |-> <<>>]
    ELSE LET done == IF failAt = 0 THEN Len(apartments) ELSE failAt - 1
             r == FilterRows(db, <<>>, SubSeq(apartments, 1, done), t)
         IN  [db |-> get_connection(db, r.conn, failAt # 0),
              raised |-> failAt # 0,
              result |-> IF failAt # 0 THEN <<>> ELSE r.new_apartments]

\* ---------------------------------------------------------- mark_as_sent
\* mutant of MarkRows: every row of the table is marked
MarkRows_All(conn, rest, t) ==
    [s \in DOMAIN conn |->
        [conn[s] EXCEPT !.sent_in_email = TRUE, !.sent_at = Some(t)]]

RECURSIVE MarkRows(_, _, _)
MarkRows(conn, rest, t) ==
    IF rest = <<>> THEN conn
    ELSE MarkRows(UpdateSent(conn, Head(rest).source_id, t), Tail(rest), t)

MarkAsSent(db, apartments, failAt, t) ==
    IF apartments = <<>>
    THEN [db |-> db, raised |-> FALSE]
    ELSE LET done == IF failAt = 0 THEN Len(apartments) ELSE failAt - 1
         IN  [db |-> get_connection(db,
                        MarkRows(db, SubSeq(apartments, 1, done), utcnow(t)),
                        failAt # 0),
              raised |-> failAt # 0]

\* -------------------------------------------------- cleanup_old_listings
\* days = days or self.EXPIRY_DAYS
EffectiveDays(days) ==
    IF days = None \/ days = Some(0) THEN EXPIRY_DAYS ELSE days[1]

Cutoff(days, t) == utcnow(t) - EffectiveDays(days) * Day

CleanupOldListings(db, days, fails, t) ==
    LET txn == DeleteOlder(db, Cutoff(days, t))
    IN  [db |-> get_connection(db, txn, fails),
         raised |-> fails,
         count |-> IF fails THEN 0
                   ELSE Cardinality(DOMAIN db) - Cardinality(DOMAIN txn)]

\* ------------------------------------------------------------ _init_db
\* mutant of InitDb: the table is created afresh
InitDb_Recreate(db) == [s \in {} |-> db[s]]
\* CREATE TABLE IF NOT EXISTS / CREATE INDEX IF NOT EXISTS
InitDb(db) == db

\* ---------------------------------------------------------------- scoring
\* Apartment.meets_must_haves: unrecognised requirements are ignored
meets_must_haves(apt, must_haves) ==
    /\ "laundry" \in must_haves =>
          ("laundry_in_unit" \in apt.amenities
             \/ "laundry_in_building" \in apt.amenities)
    /\ "dishwasher" \in must_haves => "dishwasher" \in apt.amenities
    /\ "parking" \in must_haves => "parking" \in apt.amenities
    /\ "gym" \in must_haves => "gym" \in apt.amenities
    /\ "doorman" \in must_haves => "doorman" \in apt.amenities
    /\ "elevator" \in must_haves => "elevator" \in apt.amenities
    /\ "pets" \in must_haves => "pets_allowed" \in apt.amenities
    /\ "a/c" \in must_haves => "air_conditioning" \in apt.amenities

\* an exact fraction n/d, d > 0
Frac(n, d) == [n |-> n, d |-> d]

RECURSIVE GCD(_, _)
GCD(a, b) == IF b = 0 THEN a ELSE GCD(b, a % b)

\* the fraction n/d in lowest terms (n >= 0, d > 0)
Lowest(n, d) == LET g == GCD(n, d) IN Frac(n \div g, d \div g)

\* round(n/d) to the nearest integer, ties to even (n >= 0, d > 0)
RoundHalfEven(n, d) ==
    LET q == n \div d
        r == n % d
    IN  IF 2 * r < d THEN q
        ELSE IF 2 * r > d THEN q + 1
        ELSE IF q % 2 = 0 THEN q ELSE q + 1

\* mutant of score_price: no interpolation between the two ends
score_price_Step(price_usd, cfg) ==
    IF price_usd <= cfg.min_price THEN Frac(100, 1) ELSE Frac(0, 1)

\* ScoringService._score_price
score_price(price_usd, cfg) ==
    IF price_usd <= cfg.min_price THEN Frac(100, 1)
    ELSE IF price_usd >= cfg.max_price THEN Frac(0, 1)
    ELSE Lowest(100 * ((cfg.max_price - cfg.min_price)
                          - (price_usd - cfg.min_price)),
                cfg.max_price - cfg.min_price)

\* ScoringService._score_size divides by min_sqft for every known sqft
score_size_raises(sqft, cfg) == sqft # None /\ cfg.min_sqft = 0

\* ScoringService._score_size (min_sqft # 0)
score_size(sqft, cfg) ==
    IF sqft = None THEN Frac(50, 1)
    ELSE IF sqft[1] < cfg.min_sqft
    THEN IF sqft[1] < 0 THEN Frac(0, 1) ELSE Lowest(50 * sqft[1], cfg.min_sqft)
    ELSE IF 2 * sqft[1] >= 3 * cfg.min_sqft THEN Frac(100, 1)
    ELSE Lowest(50 * cfg.min_sqft + 100 * (sqft[1] - cfg.min_sqft),
                cfg.min_sqft)

Min(a, b) == IF a < b THEN a ELSE b
Max(a, b) == IF a > b THEN a ELSE b

\* ScoringService._score_amenities
score_amenities(apt, cfg) ==
    LET bonus(flag, points) == IF flag \in apt.amenities THEN points ELSE 0
    IN  Min(60 + bonus("gym", 10) + bonus("doorman", 10) + bonus("pool", 5)
              + bonus("elevator", 5) + bonus("pets_allowed", 5)
              + bonus("air_conditioning", 5)
              + (IF "laundry_in_unit" \in apt.amenities
                     /\ "laundry" \in cfg.must_haves THEN 10 ELSE 0),
            100)

QUIET_SIGNALS ==
    {"quiet", "peaceful", "residential", "tree-lined", "family", "safe",
     "low traffic", "serene", "tranquil"}
NOISY_SIGNALS ==
    {"nightlife", "busy", "downtown", "times square", "club", "bar district",
     "highway", "train", "subway", "vibrant"}

\* ScoringService._score_location
score_location(apt, cfg) ==
    IF "quiet_neighborhood" \notin cfg.preferences THEN 70
    ELSE Max(0, Min(100, 50 + 10 * Cardinality(apt.text \cap QUIET_SIGNALS)
                            - 15 * Cardinality(apt.text \cap NOISY_SIGNALS)))

\* mutant of score_freshness: ten points less for every day of age
score_freshness_ByDay(posted_date, t) ==
    IF posted_date = None THEN 50
    ELSE Max(30, 100 - 10 * ((utcnow(t) - posted_date[1]) \div Day))

\* ScoringService._score_freshness
score_freshness(posted_date, t) ==
    IF posted_date = None THEN 50
    ELSE LET age == utcnow(t) - posted_date[1] IN
         IF age < 1 * Day THEN 100
         ELSE IF age < 3 * Day THEN 90
         ELSE IF age < 7 * Day THEN 70
         ELSE IF age < 14 * Day THEN 50
         ELSE 30

\* ScoringWeights defaults; a weight is held in thousandths
DefaultWeights ==
    [price |-> 300, size |-> 200, amenities |-> 250, location |-> 150,
     freshness |-> 100]

\* total = price + size + amenities + location + freshness, as the exact sum
WeightTotal(w) == w.price + w.size + w.amenities + w.location + w.freshness

\* how the double that the float additions produced lies to the double
\* nearest the exact sum: below it, on it, above it
FloatSlops == {-1, 0, 1}

\* ScoringWeights.validate raises ValueError: abs(total - 1.0) > 0.01 on
\* doubles.  Away from the tolerance the rounding of the sum cannot change the
\* comparison.  At an exact sum of 1.01 the nearest double, less 1.0, is
\* 0.010000000000000009 and exceeds the double 0.01, so the comparison is
\* true unless the additions rounded below it; at 0.99 the nearest double is
\* below 0.99 and the comparison is true unless the additions rounded above.
validate_raises(w, slop) ==
    LET total == WeightTotal(w) IN
    IF total - 1000 = 10 THEN slop >= 0
    ELSE IF total - 1000 = -10 THEN slop <= 0
    ELSE total - 1000 > 10 \/ 1000 - total > 10

\* [m.lower() for m in must_haves]
lower(token) ==
    CASE token = "Laundry" -> "laundry"
      [] token = "DISHWASHER" -> "dishwasher"
      [] OTHER -> token

\* ScoringService.__init__: the service, or no service if validate raised;
\* weights is None or Some(w)
ScoringService(min_price, max_price, min_sqft, must_haves, preferences, weights, slop) ==
    LET w == IF weights = None THEN DefaultWeights ELSE weights[1] IN
    IF validate_raises(w, slop) THEN None
    ELSE Some([min_price |-> min_price, max_price |-> max_price,
               min_sqft |-> min_sqft,
               must_haves |-> {lower(m) : m \in must_haves},
               preferences |-> {lower(q) : q \in preferences},
               weights |-> w])

\* ScoringService._calculate_score: the score in tenths (round(total, 1))
\* and the breakdown
calculate_score(apt, cfg, t) ==
    LET p == score_price(apt.price_usd[1], cfg)
        z == score_size(apt.sqft, cfg)
        a == score_amenities(apt, cfg)
        l == score_location(apt, cfg)
        f == score_freshness(apt.posted_date, t)
        w == cfg.weights
        \* total = n / (1000 * p.d * z.d)
        n == w.price * p.n * z.d + w.size * z.n * p.d
             + (w.amenities * a + w.location * l + w.freshness * f)
               * p.d * z.d
    IN  [score |-> RoundHalfEven(10 * n, 1000 * p.d * z.d),
         breakdown |-> [price |-> p, size |-> z, amenities |-> a,
                        location |-> l, freshness |-> f]]

\* the filtering of score_apartments
PassesFilters(apt, cfg) ==
    /\ meets_must_haves(apt, cfg.must_haves)
    /\ apt.price_usd # None
    /\ ~(apt.price_usd[1] < cfg.min_price \/ apt.price_usd[1] > cfg.max_price)

\* mutant of InsertByScore: an apartment goes before those of equal score
RECURSIVE InsertByScore_TiesFirst(_, _)
InsertByScore_TiesFirst(sorted, apt) ==
    IF sorted = <<>> THEN <<apt>>
    ELSE IF Head(sorted).score[1] > apt.score[1]
    THEN <<Head(sorted)>> \o InsertByScore_TiesFirst(Tail(sorted), apt)
    ELSE <<apt>> \o sorted

\* scored.sort(key=score, reverse=True): stable, highest first
RECURSIVE InsertByScore(_, _)
InsertByScore(sorted, apt) ==
    IF sorted = <<>> THEN <<apt>>
    ELSE IF Head(sorted).score[1] >= apt.score[1]
    THEN <<Head(sorted)>> \o InsertByScore(Tail(sorted), apt)
    ELSE <<apt>> \o sorted

RECURSIVE SortByScore(_, _)
SortByScore(sorted, rest) ==
    IF rest = <<>> THEN sorted
    ELSE SortByScore(InsertByScore(sorted, Head(rest)), Tail(rest))

\* ScoringService.score_apartments: raised when a scored apartment makes
\* _score_size divide by zero
score_apartments(apartments, cfg, t) ==
    LET kept == SelectSeq(apartments, LAMBDA apt : PassesFilters(apt, cfg))
        raised == \E i \in DOMAIN kept : score_size_raises(kept[i].sqft, cfg)
        scored == [i \in DOMAIN kept |->
                     LET c == calculate_score(kept[i], cfg, t) IN
                     [kept[i] EXCEPT !.score = Some(c.score),
                                     !.score_breakdown = Some(c.breakdown)]]
    IN  [raised |-> raised,
         result |-> IF raised THEN <<>> ELSE SortByScore(<<>>, scored)]

\* --------------------------------------------------------------- currency
\* f"{from_currency}_{to_currency}": a cache key is the pair of codes
CacheKey(from_currency, to_currency) == <<from_currency, to_currency>>

\* CurrencyService.FALLBACK_RATES
FALLBACK_RATES ==
    [k \in {CacheKey(c, "USD") : c \in {"AED", "EUR", "GBP", "DKK", "IDR"}} |->
        CASE k[1] = "AED" -> Frac(27, 100)
          [] k[1] = "EUR" -> Frac(108, 100)
          [] k[1] = "GBP" -> Frac(126, 100)
          [] k[1] = "DKK" -> Frac(14, 100)
          [] k[1] = "IDR" -> Frac(63, 1000000)]

\* CurrencyService.CACHE_DURATION: 24 hours
CACHE_DURATION == 24 * 3600 * Second

\* CurrencyService.__init__: an empty cache that was never filled
NewCurrencyService == [cache |-> [k \in {} |-> Frac(1, 1)], cache_time |-> None]

\* mutant of is_cache_valid: a cache that was filled once stays valid
is_cache_valid_Forever(cur, t) == cur.cache_time # None

\* CurrencyService._is_cache_valid
is_cache_valid(cur, t) ==
    cur.cache_time # None /\ utcnow(t) - cur.cache_time[1] < CACHE_DURATION

\* what the live source may answer: the request fails, or it returns
\* USD-based rates for some of the tracked currencies
LiveAnswers ==
    { None,
      Some([c \in {"EUR"} |-> Frac(9, 10)]),
      Some([c \in {"AED", "EUR"} |->
              IF c = "AED" THEN Frac(367, 100) ELSE Frac(9, 10)]) }

\* mutant of refresh_rates: X_USD is stored as the rate itself
refresh_rates_NoInverse(rates, t) ==
    [cache |->
        [k \in UNION {{CacheKey("USD", c), CacheKey(c, "USD")} :
                        c \in DOMAIN rates} |->
            IF k[1] = "USD" THEN rates[k[2]] ELSE rates[k[1]]],
     cache_time |-> Some(utcnow(t))]

\* CurrencyService._refresh_rates on a successful answer: both directions
refresh_rates(rates, t) ==
    [cache |->
        [k \in UNION {{CacheKey("USD", c), CacheKey(c, "USD")} :
                        c \in DOMAIN rates} |->
            IF k[1] = "USD" THEN rates[k[2]]
            ELSE Frac(rates[k[1]].d, rates[k[1]].n)],
     cache_time |-> Some(utcnow(t))]

\* mutant of get_rate: no fallback table
get_rate_NoFallback(cur, from_currency, to_currency, live, t) ==
    LET key == CacheKey(from_currency, to_currency) IN
    IF is_cache_valid(cur, t) /\ key \in DOMAIN cur.cache
    THEN [rate |-> Some(cur.cache[key]), cur |-> cur, requests |-> 0,
          raised |-> FALSE]
    ELSE LET cur2 == IF live = None THEN cur ELSE refresh_rates(live[1], t)
         IN  [rate |-> IF live # None /\ key \in DOMAIN cur2.cache
                       THEN Some(cur2.cache[key]) ELSE None,
              cur |-> cur2, requests |-> 1, raised |-> FALSE]

\* mutant of RefreshErrorCaught: the error of the request leaves _get_rate
RefreshErrorCaught_Propagates == FALSE
\* except Exception as e: around self._refresh_rates()
RefreshErrorCaught == TRUE

\* CurrencyService._get_rate; cur is the service's cache, live the answer of
\* the live source if it is asked, requests how often it was asked
get_rate(cur, from_currency, to_currency, live, t) ==
    LET key == CacheKey(from_currency, to_currency)
        inverse == CacheKey(to_currency, from_currency)
    IN  IF is_cache_valid(cur, t) /\ key \in DOMAIN cur.cache
        THEN [rate |-> Some(cur.cache[key]), cur |-> cur, requests |-> 0,
              raised |-> FALSE]
        ELSE IF live = None /\ ~RefreshErrorCaught
        THEN [rate |-> None, cur |-> cur, requests |-> 1, raised |-> TRUE]
        ELSE LET cur2 == IF live = None THEN cur
                         ELSE refresh_rates(live[1], t)
                 rate == IF live # None /\ key \in DOMAIN cur2.cache
                         THEN Some(cur2.cache[key])
                         ELSE IF key \in DOMAIN FALLBACK_RATES
                         THEN Some(FALLBACK_RATES[key])
                         ELSE IF inverse \in DOMAIN FALLBACK_RATES
                         THEN Some(Frac(FALLBACK_RATES[inverse].d,
                                        FALLBACK_RATES[inverse].n))
                         ELSE None
             IN  [rate |-> rate, cur |-> cur2, requests |-> 1,
                  raised |-> FALSE]

\* CurrencyService.convert_to_usd: amount * rate raises for a missing amount
convert_to_usd(cur, amount, from_currency, live, t) ==
    IF from_currency = "USD"
    THEN [raised |-> FALSE, value |-> amount, cur |-> cur, requests |-> 0]
    ELSE LET r == get_rate(cur, from_currency, "USD", live, t) IN
         IF r.raised
         THEN [raised |-> TRUE, value |-> None, cur |-> r.cur,
               requests |-> r.requests]
         ELSE IF r.rate = None
         THEN [raised |-> FALSE, value |-> None, cur |-> r.cur,
               requests |-> r.requests]
         ELSE IF amount = None
         THEN [raised |-> TRUE, value |-> None, cur |-> r.cur,
               requests |-> r.requests]
         ELSE [raised |-> FALSE,
               value |-> Some(RoundHalfEven(amount[1] * r.rate[1].n,
                                            r.rate[1].d)),
               cur |-> r.cur, requests |-> r.requests]

\* mutant of convert_from_usd: no number without a rate
convert_from_usd_Null(cur, amount, to_currency, live, t) ==
    LET r == convert_to_usd(cur, Some(amount), to_currency, live, t) IN
    [value |-> None, cur |-> r.cur, requests |-> r.requests,
     raised |-> FALSE]

\* CurrencyService.convert_from_usd: the amount as an exact fraction
convert_from_usd(cur, amount, to_currency, live, t) ==
    IF to_currency = "USD"
    THEN [value |-> Frac(amount, 1), cur |-> cur, requests |-> 0,
          raised |-> FALSE]
    ELSE LET r == get_rate(cur, "USD", to_currency, live, t) IN
         IF r.raised
         THEN [value |-> None, cur |-> r.cur, requests |-> r.requests,
               raised |-> TRUE]
         ELSE IF r.rate = None
         THEN IF CacheKey(to_currency, "USD") \in DOMAIN FALLBACK_RATES
              THEN [value |->
                      Frac(amount * FALLBACK_RATES[CacheKey(to_currency, "USD")].d,
                           FALLBACK_RATES[CacheKey(to_currency, "USD")].n),
                    cur |-> r.cur, requests |-> r.requests, raised |-> FALSE]
              ELSE [value |-> Frac(amount, 1), cur |-> r.cur,
                    requests |-> r.requests, raised |-> FALSE]
         ELSE [value |-> Frac(RoundHalfEven(amount * r.rate[1].n,
                                            r.rate[1].d), 1),
               cur |-> r.cur, requests |-> r.requests, raised |-> FALSE]

\* ------------------------------------------------------- the configuration
\* config["cities"]: the city keys in file order
CityKeys == <<"nyc", "dubai">>

\* config["cities"][city_key]
CityConfig(city_key) ==
    IF city_key = "nyc"
    THEN [display_name |-> "New York", currency |-> "USD",
          sources |-> <<"zillow", "craigslist", "streeteasy">>]
    ELSE [display_name |-> "Dubai", currency |-> "AED",
          sources |-> <<"bayut">>]

\* config["search"] and what ScoringService is built from (__init__);
\* bedrooms tells whether search.size.bedrooms is present in the file
Search(min_sqft, bedrooms) ==
    [min_price |-> 250000, max_price |-> 400000, min_sqft |-> min_sqft,
     bedrooms |-> bedrooms, must_haves |-> {"laundry", "dishwasher"},
     preferences |-> {"quiet_neighborhood"}, weights |-> DefaultWeights]

\* the search sections tried
Searches == {Search(700, TRUE), Search(0, TRUE), Search(700, FALSE)}

\* the arguments of run and the configuration of one invocation
Invocation(only_city, only_source, search) ==
    [only_city |-> only_city, only_source |-> only_source, search |-> search]

\* the invocations tried: every search section with no filter, and each
\* filter with the first one
Invocations ==
    {Invocation(None, None, search) : search \in Searches}
      \cup {Invocation(Some("dubai"), None, Search(700, TRUE)),
            Invocation(None, Some("craigslist"), Search(700, TRUE))}

\* config["email"]
EmailConfig(enabled, recipients, top_picks_per_city) ==
    [enabled |-> enabled, recipients |-> recipients,
     top_picks_per_city |-> top_picks_per_city]

PLACEHOLDER == "your_email@example.com"
RecipientLists == {<<>>, <<PLACEHOLDER>>, <<PLACEHOLDER, "me@home.org">>}
TopNs == {0, 1, 3}
\* the email sections tried
EmailConfigs ==
    {EmailConfig(e, r, n) : e \in BOOLEAN, r \in RecipientLists, n \in TopNs}

\* an email section under which send_daily_digest can be reached
Sendable(email) ==
    email.enabled /\ \E i \in DOMAIN email.recipients :
                        email.recipients[i] # PLACEHOLDER

\* ------------------------------------------------------------ the adapters
\* the adapter modules adapters/__init__.py imports and registers
ADAPTER_REGISTRY ==
    {"craigslist", "bayut", "idealista", "streeteasy", "renthop",
     "findproperties", "boligportal", "lejebolig", "propertyfinder",
     "casasapo", "rumah123"}

\* the adapters whose is_available() asks for credentials; BaseAdapter's
\* answers True
NeedsCredentials == {"bayut", "idealista"}

\* what a source can show in one fetch
Feeds(source_name) ==
    CASE source_name = "craigslist" -> {<<AptA, AptE>>}
      [] source_name = "streeteasy" -> {<<AptC>>}
      [] source_name = "bayut" -> {<<AptB>>, <<AptB, AptD>>}
      [] OTHER -> {<<>>}

\* how one source behaves when it is used: the constructor raises or not,
\* is_available() answers, and fetch_listings raises (None) or returns
World(init_raises, available, listings) ==
    [init_raises |-> init_raises, available |-> available,
     listings |-> listings]

NoWorld == World(FALSE, TRUE, None)

Worlds(source_name) ==
    {World(TRUE, TRUE, None)}
      \cup {World(FALSE, TRUE, l) :
              l \in {None} \cup {Some(f) : f \in Feeds(source_name)}}
      \cup (IF source_name \in NeedsCredentials
            THEN {World(FALSE, FALSE, Some(f)) : f \in Feeds(source_name)}
            ELSE {})

\* ------------------------------------------------------------ _process_city
\* SearchCriteria(...): search["size"]["bedrooms"] raises KeyError when the
\* file has no bedrooms entry
criteria_raises(search) == ~search.bedrooms

\* the two convert_from_usd calls for the budget and the SearchCriteria
BuildCriteria(c, search, local_currency, live, t) ==
    LET lo == convert_from_usd(c, search.min_price, local_currency, live, t)
        hi == convert_from_usd(lo.cur, search.max_price, local_currency,
                               live, t)
    IN  [raised |-> criteria_raises(search), cur |-> hi.cur,
         criteria |-> [min_price_local |-> lo.value,
                       max_price_local |-> hi.value,
                       min_sqft |-> search.min_sqft,
                       must_have_amenities |-> search.must_haves]]

\* if only_source and source_name != only_source: continue
SourceFilteredOut(source_name, only_source) ==
    only_source # None /\ only_source # Some("") /\ only_source[1] # source_name

\* if only_city and city_key != only_city: continue
CityFilteredOut(city_key, only_city) ==
    only_city # None /\ only_city # Some("") /\ only_city[1] # city_key

\* mutant of ConvertPrices: the listings go on as the adapter gave them
ConvertPrices_Skip(c, done, rest, live, t) ==
    [raised |-> FALSE, listings |-> done \o rest, cur |-> c]

\* the loop that fills price_usd: raises when convert_to_usd raises
RECURSIVE ConvertPrices(_, _, _, _, _)
ConvertPrices(c, done, rest, live, t) ==
    IF rest = <<>> THEN [raised |-> FALSE, listings |-> done, cur |-> c]
    ELSE LET apt == Head(rest) IN
         IF apt.price_usd # None
         THEN ConvertPrices(c, Append(done, apt), Tail(rest), live, t)
         ELSE LET r == convert_to_usd(c, apt.price_local, apt.currency,
                                      live, t) IN
              IF r.raised
              THEN [raised |-> TRUE, listings |-> done, cur |-> r.cur]
              ELSE ConvertPrices(r.cur,
                       Append(done, [apt EXCEPT !.price_usd = r.value]),
                       Tail(rest), live, t)

\* mutant of SkipUnavailable: an unavailable adapter is used all the same
SkipUnavailable_Never(available) == FALSE
\* if not adapter.is_available(): continue
SkipUnavailable(available) == ~available

\* the try block of the source loop: get_adapter, is_available,
\* fetch_listings, the price loop, extend
TrySource(all, c, source_name, world, live, t) ==
    IF source_name \notin ADAPTER_REGISTRY \/ world.init_raises
    THEN [fetched |-> FALSE, raised |-> TRUE, all |-> all, cur |-> c]
    ELSE IF SkipUnavailable(world.available)
    THEN [fetched |-> FALSE, raised |-> FALSE, all |-> all, cur |-> c]
    ELSE IF world.listings = None
    THEN [fetched |-> TRUE, raised |-> TRUE, all |-> all, cur |-> c]
    ELSE LET r == ConvertPrices(c, <<>>, world.listings[1], live, t) IN
         IF r.raised
         THEN [fetched |-> TRUE, raised |-> TRUE, all |-> all, cur |-> r.cur]
         ELSE [fetched |-> TRUE, raised |-> FALSE, all |-> all \o r.listings,
               cur |-> r.cur]

\* results_by_city[display_name] = apartments
Put(results, display_name, apartments) ==
    IF \E i \in DOMAIN results : results[i].name = display_name
    THEN [i \in DOMAIN results |->
            IF results[i].name = display_name
            THEN [name |-> display_name, apartments |-> apartments]
            ELSE results[i]]
    ELSE Append(results, [name |-> display_name, apartments |-> apartments])

\* -------------------------------------------------------------- _send_email
\* apts[:n], n >= 0
Take(apts, n) == SubSeq(apts, 1, Min(n, Len(apts)))

\* {city: apts[:top_n] for city, apts in results.items()}
TopPicks(results, top_n) ==
    [i \in DOMAIN results |->
        [name |-> results[i].name,
         apartments |-> Take(results[i].apartments, top_n)]]

\* [apt for apts in top_picks.values() for apt in apts]
RECURSIVE Flatten(_)
Flatten(results) ==
    IF results = <<>> THEN <<>>
    ELSE Head(results).apartments \o Flatten(Tail(results))

\* how the delivery goes: EmailService has no credentials, the provider
\* accepts or refuses the message (_send_via_* return True or False), or
\* building the message raises
Deliveries == {"not_configured", "sent", "failed", "raised"}

\* EmailService.send_daily_digest: digest is the listings put in the message
send_daily_digest(recipients, apartments_by_city, top_n, delivery) ==
    LET cities_data ==
            TopPicks(SelectSeq(apartments_by_city,
                               LAMBDA c : c.apartments # <<>>), top_n)
    IN  IF delivery = "not_configured"
        THEN [raised |-> FALSE, success |-> FALSE, digest |-> <<>>]
        ELSE IF cities_data = <<>>
        THEN [raised |-> FALSE, success |-> TRUE, digest |-> <<>>]
        ELSE IF delivery = "raised"
        THEN [raised |-> TRUE, success |-> FALSE, digest |-> <<>>]
        ELSE [raised |-> FALSE, success |-> delivery = "sent",
              digest |-> Flatten(cities_data)]

\* mutant of DeliveryConfirmed: the listings are marked whatever was returned
DeliveryConfirmed_Always(success) == TRUE
\* if success:
DeliveryConfirmed(success) == success

\* what the email step did
\* outcome; the top_n, the top picks handed to send_daily_digest and the
\* listings it put in the message, if it was called; the list handed to
\* mark_as_sent, if it was called
Mail(outcome, top_n, handed, digest, marked) ==
    [outcome |-> outcome, top_n |-> top_n, handed |-> handed,
     digest |-> digest, marked |-> marked]

NoMail == Mail("none", 0, <<>>, <<>>, None)

\* the email step of run: the guard of line 80 and _send_email. failAt is
\* the database error that hits mark_as_sent, if it is called
SendEmail(db, results, skip_email, email, delivery, failAt, t) ==
    LET recipients == SelectSeq(email.recipients, LAMBDA r : r # PLACEHOLDER)
        top_n == email.top_picks_per_city
        top_picks == TopPicks(results, top_n)
        all_sent == Flatten(top_picks)
        quiet(outcome) ==
            [db |-> db, raised |-> FALSE,
             mail |-> Mail(outcome, 0, <<>>, <<>>, None)]
    IN  IF skip_email THEN quiet("skipped")
        ELSE IF ~email.enabled THEN quiet("disabled")
        ELSE IF email.recipients = <<>> THEN quiet("no_recipients")
        ELSE IF recipients = <<>> THEN quiet("placeholder_only")
        ELSE IF Len(all_sent) = 0 THEN quiet("nothing_to_send")
        ELSE LET d == send_daily_digest(recipients, top_picks, top_n, delivery)
             IN  IF d.raised
                 THEN [db |-> db, raised |-> TRUE,
                       mail |-> Mail("send_raised", top_n, all_sent, d.digest,
                                     None)]
                 ELSE IF DeliveryConfirmed(d.success)
                 THEN LET m == MarkAsSent(db, all_sent, failAt, t) IN
                      [db |-> m.db, raised |-> m.raised,
                       mail |-> Mail(IF d.success THEN "sent" ELSE "not_sent",
                                     top_n, all_sent, d.digest,
                                     Some(all_sent))]
                 ELSE [db |-> db, raised |-> FALSE,
                       mail |-> Mail("not_sent", top_n, all_sent, d.digest,
                                     None)]

\* the last step of a run
Event(step, city, source, world, fetched, raised) ==
    [step |-> step, city |-> city, source |-> source, world |-> world,
     fetched |-> fetched, raised |-> raised]

NoEvent == Event("none", "", "", NoWorld, FALSE, FALSE)

\* no run in progress
NoConfig == Invocation(None, None, Search(700, TRUE))

\* ------------------------------------------------------------- the calls
NoCall ==
    [name |-> "none", apartments |-> <<>>, days |-> None, failAt |-> 0,
     raised |-> FALSE, result |-> <<>>, count |-> 0]

Call(name, apartments, days, failAt, raised, result, count) ==
    [name |-> name, apartments |-> apartments, days |-> days,
     failAt |-> failAt, raised |-> raised, result |-> result, count |-> count]

\* no scoring or currency function was called yet
NoCalc == [name |-> "none"]

\* the days arguments tried
DaysArgs == {None, Some(0), Some(1)}

Init ==
    /\ store = [s \in {} |-> 0]
    /\ now = 0
    /\ ticks = 0
    /\ op = NoCall
    /\ pc = "idle"
    /\ config = NoConfig
    /\ city_idx = 0
    /\ source_idx = 0
    /\ all_apartments = <<>>
    /\ city_new_apartments = <<>>
    /\ results_by_city = <<>>
    /\ currency_service = NewCurrencyService
    /\ runs = 0
    /\ ev = NoEvent
    /\ mail = NoMail
    /\ cleanups = 0
    /\ scoring_service = None
    /\ calc = NoCalc

filter_new_listings(apartments, failAt) ==
    LET r == FilterNewListings(store, apartments, failAt, now) IN
    /\ op = NoCall
    /\ store' = r.db
    /\ op' = Call("filter_new_listings", apartments, None, failAt, r.raised, r.result, 0)
    /\ UNCHANGED <<now, ticks>>
    /\ UNCHANGED runVars
    /\ UNCHANGED calcVars

mark_as_sent(apartments, failAt) ==
    LET r == MarkAsSent(store, apartments, failAt, now) IN
    /\ op = NoCall
    /\ store' = r.db
    /\ op' = Call("mark_as_sent", apartments, None, failAt, r.raised, <<>>, 0)
    /\ UNCHANGED <<now, ticks>>
    /\ UNCHANGED runVars
    /\ UNCHANGED calcVars

cleanup_old_listings(days, fails) ==
    LET r == CleanupOldListings(store, days, fails, now) IN
    /\ op = NoCall
    /\ store' = r.db
    /\ op' = Call("cleanup_old_listings", <<>>, days,
                IF fails THEN 1 ELSE 0, r.raised, <<>>, r.count)
    /\ UNCHANGED <<now, ticks>>
    /\ UNCHANGED runVars
    /\ UNCHANGED calcVars

reset ==
    /\ op = NoCall
    /\ store' = get_connection(store, DeleteAll(store), FALSE)
    /\ op' = Call("reset", <<>>, None, 0, FALSE, <<>>, 0)
    /\ UNCHANGED <<now, ticks>>
    /\ UNCHANGED runVars
    /\ UNCHANGED calcVars

\* DeduplicationService(): a new instance on the same database file
NewService ==
    /\ op = NoCall
    /\ store' = get_connection(store, InitDb(store), FALSE)
    /\ op' = Call("init", <<>>, None, 0, FALSE, <<>>, 0)
    /\ UNCHANGED <<now, ticks>>
    /\ UNCHANGED runVars
    /\ UNCHANGED calcVars

\* the call returns to its caller
Return ==
    /\ op # NoCall
    /\ op' = NoCall
    /\ UNCHANGED <<store, now, ticks>>
    /\ UNCHANGED runVars
    /\ UNCHANGED calcVars

Tick ==
    /\ op = NoCall
    /\ ticks < MaxTicks
    /\ \E d \in TickSteps : now' = now + d
    /\ ticks' = ticks + 1
    /\ UNCHANGED <<store, op>>
    /\ UNCHANGED runVars
    /\ UNCHANGED calcVars

\* a database error can hit any statement of a non-empty batch, or the commit
FailPoints(apartments) ==
    IF apartments = <<>> THEN {0} ELSE 0..(Len(apartments) + 1)

Next ==
    \/ \E apartments \in Batches : \E failAt \in FailPoints(apartments) :
          filter_new_listings(apartments, failAt)
    \/ \E apartments \in Batches : mark_as_sent(apartments, 0)
    \/ \E days \in DaysArgs : cleanup_old_listings(days, FALSE)
    \/ reset
    \/ NewService
    \/ Return
    \/ Tick

Spec == Init /\ [][Next]_vars

\* ---------------------------------------------------- ApartmentFinder.run
\* the city the loop of run is at, and the source the loop of _process_city
\* is at
CityKey == CityKeys[city_idx]
City == CityConfig(CityKey)
SourceName == City.sources[source_idx]

\* ApartmentFinder(...).run(skip_email, only_city, only_source): the services
\* are constructed and the run begins
RunStart(invocation) ==
    /\ pc = "idle"
    /\ runs < MaxRuns
    /\ runs' = runs + 1
    /\ config' = invocation
    /\ store' = get_connection(store, InitDb(store), FALSE)
    /\ currency_service' = NewCurrencyService
    /\ results_by_city' = <<>>
    /\ city_idx' = 1
    /\ pc' = "city"
    /\ ev' = Event("start", "", "", NoWorld, FALSE, FALSE)
    /\ UNCHANGED <<now, ticks, op, source_idx, all_apartments,
                   city_new_apartments, mail, cleanups>>
    /\ UNCHANGED calcVars

\* mutant of CityErrorCaught: the exception leaves run
CityErrorCaught_Propagates == FALSE
\* except Exception as e: around _process_city
CityErrorCaught == TRUE

\* an exception leaves _process_city
CityRaised ==
    IF CityErrorCaught
    THEN /\ results_by_city' = Put(results_by_city, City.display_name, <<>>)
         /\ city_idx' = city_idx + 1
         /\ pc' = "city"
    ELSE /\ pc' = "aborted"
         /\ UNCHANGED <<results_by_city, city_idx>>

\* the city is not the one asked for
SkipCity ==
    /\ pc = "city"
    /\ city_idx <= Len(CityKeys)
    /\ CityFilteredOut(CityKey, config.only_city)
    /\ city_idx' = city_idx + 1
    /\ ev' = Event("skip_city", CityKey, "", NoWorld, FALSE, FALSE)
    /\ UNCHANGED <<storeVars, pc, config, source_idx, all_apartments,
                   city_new_apartments, results_by_city, currency_service,
                   runs, mail, cleanups>>
    /\ UNCHANGED calcVars

\* _process_city up to the source loop
BeginCity(live) ==
    LET c == BuildCriteria(currency_service, config.search, City.currency,
                           live, now) IN
    /\ pc = "city"
    /\ city_idx <= Len(CityKeys)
    /\ ~CityFilteredOut(CityKey, config.only_city)
    /\ currency_service' = c.cur
    /\ all_apartments' = <<>>
    /\ city_new_apartments' = <<>>
    /\ source_idx' = IF c.raised THEN 0 ELSE 1
    /\ ev' = Event("criteria", CityKey, "", NoWorld, FALSE, c.raised)
    /\ IF c.raised
       THEN CityRaised
       ELSE pc' = "source" /\ UNCHANGED <<results_by_city, city_idx>>
    /\ UNCHANGED <<storeVars, config, runs, mail, cleanups>>
    /\ UNCHANGED calcVars

\* except Exception as e: ... continue, in the source loop
SourceErrorCaught == TRUE

\* one pass of the source loop
ProcessSource(world, live) ==
    /\ pc = "source"
    /\ source_idx <= Len(City.sources)
    /\ IF SourceFilteredOut(SourceName, config.only_source)
          \/ SourceName \notin ADAPTER_REGISTRY
       THEN /\ ev' = Event("source", CityKey, SourceName, NoWorld, FALSE, FALSE)
            /\ source_idx' = source_idx + 1
            /\ UNCHANGED <<all_apartments, currency_service, pc,
                           results_by_city, city_idx>>
       ELSE LET r == TrySource(all_apartments, currency_service, SourceName,
                               world, live, now) IN
            /\ ev' = Event("source", CityKey, SourceName, world, r.fetched,
                           r.raised)
            /\ currency_service' = r.cur
            /\ all_apartments' = r.all
            /\ IF r.raised /\ ~SourceErrorCaught
               THEN CityRaised /\ UNCHANGED source_idx
               ELSE /\ source_idx' = source_idx + 1
                    /\ UNCHANGED <<pc, results_by_city, city_idx>>
    /\ UNCHANGED <<storeVars, config, city_new_apartments, runs, mail,
                   cleanups>>
    /\ UNCHANGED calcVars

\* new_apartments = self.dedup_service.filter_new_listings(all_apartments)
FilterCity(failAt) ==
    LET r == FilterNewListings(store, all_apartments, failAt, now) IN
    /\ pc = "source"
    /\ source_idx > Len(City.sources)
    /\ store' = r.db
    /\ city_new_apartments' = r.result
    /\ ev' = Event("filter", CityKey, "", NoWorld, FALSE, r.raised)
    /\ IF r.raised
       THEN CityRaised /\ all_apartments' = <<>> /\ source_idx' = 0
       ELSE /\ pc' = "score"
            /\ UNCHANGED <<results_by_city, city_idx, all_apartments,
                           source_idx>>
    /\ UNCHANGED <<now, ticks, op, config, currency_service, runs, mail,
                   cleanups>>
    /\ UNCHANGED calcVars

\* scored = self.scoring_service.score_apartments(new_apartments); return;
\* results_by_city[display_name] = apartments
ScoreCity ==
    LET r == score_apartments(city_new_apartments, config.search, now) IN
    /\ pc = "score"
    /\ ev' = Event("score", CityKey, "", NoWorld, FALSE, r.raised)
    /\ all_apartments' = <<>>
    /\ city_new_apartments' = <<>>
    /\ source_idx' = 0
    /\ IF r.raised
       THEN CityRaised
       ELSE /\ results_by_city' = Put(results_by_city, City.display_name,
                                      r.result)
            /\ city_idx' = city_idx + 1
            /\ pc' = "city"
    /\ UNCHANGED <<storeVars, config, currency_service, runs, mail, cleanups>>
    /\ UNCHANGED calcVars

\* if not skip_email and enabled: self._send_email(results_by_city)
EmailStep(skip_email, email, delivery, failAt) ==
    LET r == SendEmail(store, results_by_city, skip_email, email, delivery,
                       failAt, now) IN
    /\ pc = "city"
    /\ city_idx > Len(CityKeys)
    /\ store' = r.db
    /\ mail' = r.mail
    /\ ev' = Event("email", "", "", NoWorld, FALSE, r.raised)
    /\ pc' = IF r.raised THEN "aborted" ELSE "cleanup"
    /\ UNCHANGED <<now, ticks, op, config, city_idx, source_idx,
                   all_apartments, city_new_apartments, results_by_city,
                   currency_service, runs, cleanups>>
    /\ UNCHANGED calcVars

\* self.dedup_service.cleanup_old_listings(); return results_by_city
CleanupStep ==
    LET r == CleanupOldListings(store, None, FALSE, now) IN
    /\ pc = "cleanup"
    /\ store' = r.db
    /\ cleanups' = cleanups + 1
    /\ ev' = Event("cleanup", "", "", NoWorld, FALSE, FALSE)
    /\ pc' = "done"
    /\ UNCHANGED <<now, ticks, op, config, city_idx, source_idx,
                   all_apartments, city_new_apartments, results_by_city,
                   currency_service, runs, mail>>
    /\ UNCHANGED calcVars

\* run has returned or raised: the process ends
RunEnd ==
    /\ pc \in {"done", "aborted"}
    /\ pc' = "idle"
    /\ config' = NoConfig
    /\ city_idx' = 0
    /\ source_idx' = 0
    /\ all_apartments' = <<>>
    /\ city_new_apartments' = <<>>
    /\ results_by_city' = <<>>
    /\ currency_service' = NewCurrencyService
    /\ ev' = NoEvent
    /\ mail' = NoMail
    /\ cleanups' = 0
    /\ UNCHANGED <<storeVars, runs>>
    /\ UNCHANGED calcVars

\* time passes between two runs
RunTick ==
    /\ pc = "idle"
    /\ Tick

\* during a run the live source is reachable and knows the cities' currencies
RunLiveAnswers ==
    {live \in LiveAnswers : live # None /\ "AED" \in DOMAIN live[1]}

\* the ways the source the loop is at can behave
SourceWorlds ==
    IF pc = "source" /\ source_idx <= Len(City.sources)
    THEN Worlds(SourceName) ELSE {}

\* the database errors that can hit the filter_new_listings call of the city
FilterFailPoints ==
    IF pc = "source" THEN FailPoints(all_apartments) ELSE {}

\* the ways the delivery can go, where send_daily_digest can be reached
EmailDeliveries(skip_email, email) ==
    IF ~skip_email /\ Sendable(email) THEN Deliveries ELSE {"not_configured"}

\* the database errors that can hit the mark_as_sent call of _send_email,
\* where it can be reached
MarkFailPoints(skip_email, email, delivery) ==
    IF pc = "city" /\ ~skip_email /\ Sendable(email) /\ delivery = "sent"
    THEN FailPoints(Flatten(TopPicks(results_by_city,
                                     email.top_picks_per_city)))
    ELSE {0}

NextRun ==
    \/ \E invocation \in Invocations : RunStart(invocation)
    \/ SkipCity
    \/ \E live \in RunLiveAnswers : BeginCity(live)
    \/ \E live \in RunLiveAnswers : \E world \in SourceWorlds :
          ProcessSource(world, live)
    \/ \E failAt \in FilterFailPoints : FilterCity(failAt)
    \/ ScoreCity
    \/ \E skip_email \in BOOLEAN : \E email \in EmailConfigs :
          \E delivery \in EmailDeliveries(skip_email, email) :
             \E failAt \in MarkFailPoints(skip_email, email, delivery) :
                EmailStep(skip_email, email, delivery, failAt)
    \/ CleanupStep
    \/ RunEnd
    \/ RunTick

SpecRun == Init /\ [][NextRun]_vars

\* ------------------------------------------- the scoring service on its own
\* listings handed to score_apartments: "a" and a second listing like it,
\* one without price_usd, one lacking a must-have, one that is best on every
\* dimension and costs exactly min_price, and one exactly at max_price
AptT ==
    Apartment("t", "streeteasy", "nyc", "Apt t", "u/t", Some(300000), "USD",
              Some(300000), Some(800), {"laundry_in_unit", "dishwasher"},
              {"quiet"}, Some(0))
AptF ==
    Apartment("f", "craigslist", "nyc", "Apt f", "u/f", Some(250000), "USD",
              Some(250000), Some(1050),
              {"laundry_in_unit", "dishwasher", "gym", "doorman", "pool",
               "elevator", "pets_allowed"},
              {"quiet", "peaceful", "residential", "safe", "serene"}, Some(0))
AptG ==
    Apartment("g", "craigslist", "nyc", "Apt g", "u/g", Some(400000), "USD",
              Some(400000), None, {"laundry_in_building", "dishwasher"},
              {"busy"}, None)

ScoringCatalog == {AptA, AptT, AptB, AptE, AptF, AptG}
ScoringBatches == BoundedSeq(ScoringCatalog, MaxBatch)

\* the arguments ScoringService is constructed with: the budget, min_sqft,
\* must_haves and preferences
ScoringArgs(min_price, max_price, min_sqft, must_haves, preferences) ==
    [min_price |-> min_price, max_price |-> max_price, min_sqft |-> min_sqft,
     must_haves |-> must_haves, preferences |-> preferences]

\* the configurations tried: the one of the tests, the same without a minimum
\* size, and a budget of a single price with no must-haves and no preferences
FixtureArgs ==
    ScoringArgs(250000, 400000, 700, {"Laundry", "dishwasher"},
                {"quiet_neighborhood"})
ScoringConfigs ==
    { FixtureArgs,
      ScoringArgs(250000, 400000, 0, {"Laundry", "dishwasher"},
                  {"quiet_neighborhood"}),
      ScoringArgs(300000, 300000, 700, {}, {}) }

\* ScoringWeights(price, size, amenities, location, freshness)
ScoringWeights(price, size, amenities, location, freshness) ==
    [price |-> price, size |-> size, amenities |-> amenities,
     location |-> location, freshness |-> freshness]

\* the weights arguments tried: none, and vectors that sum to 1.0, 1.3,
\* 1.01, 0.99, 1.005 and 1.011
WeightVectors ==
    { None,
      Some(ScoringWeights(400, 200, 200, 100, 100)),
      Some(ScoringWeights(500, 300, 300, 100, 100)),
      Some(ScoringWeights(310, 200, 250, 150, 100)),
      Some(ScoringWeights(290, 200, 250, 150, 100)),
      Some(ScoringWeights(305, 200, 250, 150, 100)),
      Some(ScoringWeights(311, 200, 250, 150, 100)) }

\* every weights argument is tried with the configuration of the tests, the
\* other configurations keep the default weights
WeightsFor(c) == IF c = FixtureArgs THEN WeightVectors ELSE {None}

\* the sizes the size sub-score is asked for
Sqfts ==
    {None, Some(0), Some(350), Some(699), Some(700), Some(800), Some(1050),
     Some(1200)}

\* scoring_service = ScoringService(...): main.py constructs the service
\* before anything is scored
NewScoringService(c, weights, slop) ==
    LET svc == ScoringService(c.min_price, c.max_price, c.min_sqft,
                              c.must_haves, c.preferences, weights, slop) IN
    /\ calc = NoCalc
    /\ scoring_service' = svc
    /\ calc' = [name |-> "ScoringService", weights |-> weights,
                slop |-> slop, raised |-> svc = None]
    /\ UNCHANGED <<storeVars, runVars>>

\* scoring_service.score_apartments(apartments); a run that follows a run
\* is handed the listings of that run again, and earlier is when that run
\* scored them
ScoreApartments(apartments) ==
    /\ scoring_service # None
    /\ calc.name = "score_apartments" => calc.apartments = apartments
    /\ LET r == score_apartments(apartments, scoring_service[1], now) IN
       calc' = [name |-> "score_apartments", apartments |-> apartments,
                t |-> now, raised |-> r.raised, result |-> r.result,
                earlier |-> IF calc.name = "score_apartments"
                            THEN Some(calc.t) ELSE None]
    /\ UNCHANGED <<scoring_service, storeVars, runVars>>

\* scoring_service._score_price(price_usd)
ScorePrice(price_usd) ==
    /\ scoring_service # None
    /\ calc' = [name |-> "_score_price", price_usd |-> price_usd,
                result |-> score_price(price_usd, scoring_service[1])]
    /\ UNCHANGED <<scoring_service, storeVars, runVars>>

\* scoring_service._score_size(sqft)
ScoreSize(sqft) ==
    /\ scoring_service # None
    /\ LET raised == score_size_raises(sqft, scoring_service[1]) IN
       calc' = [name |-> "_score_size", sqft |-> sqft, raised |-> raised,
                result |-> IF raised THEN None
                           ELSE Some(score_size(sqft, scoring_service[1]))]
    /\ UNCHANGED <<scoring_service, storeVars, runVars>>

ScoringTick ==
    /\ ticks < MaxTicks
    /\ now' = now + Day
    /\ ticks' = ticks + 1
    /\ UNCHANGED <<store, op, runVars, calcVars>>

NextScoring ==
    \/ \E c \in ScoringConfigs : \E weights \in WeightsFor(c) :
          \E slop \in FloatSlops : NewScoringService(c, weights, slop)
    \/ \E apartments \in ScoringBatches : ScoreApartments(apartments)
    \/ \E price_usd \in {249999, 250000, 300000, 325000, 399999, 400000, 400001} :
          ScorePrice(price_usd)
    \/ \E sqft \in Sqfts : ScoreSize(sqft)
    \/ ScoringTick

SpecScoring == Init /\ [][NextScoring]_vars

\* ------------------------------------------ the currency service on its own
\* the amounts, in hundredths, and the currency codes the conversions are
\* asked for: USD, two currencies the live source may know, one that only the
\* fallback table knows, and one that nothing knows
Amounts == {100000, 12346, 1500000}
Currencies == {"USD", "EUR", "AED", "GBP", "XYZ"}

\* currency_service.convert_to_usd(amount, from_currency); live is what the
\* live source answers if it is asked, and is recorded if it was
ConvertToUsd(amount, from_currency, live) ==
    LET r == convert_to_usd(currency_service, Some(amount), from_currency,
                            live, now) IN
    /\ currency_service' = r.cur
    /\ calc' = [name |-> "convert_to_usd", amount |-> amount,
                currency |-> from_currency, t |-> now,
                cache_time |-> currency_service.cache_time,
                requests |-> r.requests,
                live |-> IF r.requests = 0 THEN None ELSE live,
                raised |-> r.raised, value |-> r.value]
    /\ UNCHANGED <<store, now, ticks, op, pc, config, city_idx, source_idx,
                   all_apartments, city_new_apartments, results_by_city,
                   runs, ev, mail, cleanups, scoring_service>>

\* currency_service.convert_from_usd(amount, to_currency)
ConvertFromUsd(amount, to_currency, live) ==
    LET r == convert_from_usd(currency_service, amount, to_currency, live,
                              now) IN
    /\ currency_service' = r.cur
    /\ calc' = [name |-> "convert_from_usd", amount |-> amount,
                currency |-> to_currency, t |-> now,
                cache_time |-> currency_service.cache_time,
                requests |-> r.requests,
                live |-> IF r.requests = 0 THEN None ELSE live,
                raised |-> r.raised, value |-> r.value]
    /\ UNCHANGED <<store, now, ticks, op, pc, config, city_idx, source_idx,
                   all_apartments, city_new_apartments, results_by_city,
                   runs, ev, mail, cleanups, scoring_service>>

\* convert_to_usd(convert_from_usd(amount, currency), currency); a value that
\* convert_from_usd computed with a rate is a whole number of hundredths
RoundTrip(amount, currency, live) ==
    LET there == convert_from_usd(currency_service, amount, currency, live,
                                  now)
        back == convert_to_usd(there.cur, Some(there.value.n), currency,
                               live, now)
    IN  /\ ~there.raised
        /\ there.value.d = 1
        /\ currency_service' = back.cur
        /\ calc' = [name |-> "round_trip", amount |-> amount,
                    currency |-> currency, t |-> now,
                    requests |-> <<there.requests, back.requests>>,
                    live |-> IF there.requests + back.requests = 0
                             THEN None ELSE live,
                    local |-> there.value.n, raised |-> back.raised,
                    value |-> back.value]
        /\ UNCHANGED <<store, now, ticks, op, pc, config, city_idx,
                       source_idx, all_apartments, city_new_apartments,
                       results_by_city, runs, ev, mail, cleanups,
                       scoring_service>>

\* time passes between two conversions: a tick, or a tick less than the
\* lifetime of the cache
CurrencyTick ==
    /\ ticks < MaxTicks
    /\ \E d \in {1, CACHE_DURATION - 1} : now' = now + d
    /\ ticks' = ticks + 1
    /\ UNCHANGED <<store, op, runVars, calcVars>>

NextCurrency ==
    \/ \E amount \in Amounts : \E from_currency \in Currencies :
          \E live \in LiveAnswers : ConvertToUsd(amount, from_currency, live)
    \/ \E amount \in Amounts : \E to_currency \in Currencies :
          \E live \in LiveAnswers : ConvertFromUsd(amount, to_currency, live)
    \/ CurrencyTick

SpecCurrency == Init /\ [][NextCurrency]_vars

\* one CurrencyService taking amounts there and back, the clock running
NextRoundTrip ==
    \/ \E amount \in {100000, 250005} : \E currency \in Currencies :
          \E live \in LiveAnswers : RoundTrip(amount, currency, live)
    \/ CurrencyTick

SpecRoundTrip == Init /\ [][NextRoundTrip]_vars

\* --------------------------------------------- the ids the adapters assign
\* A string that is sliced or split is given as the sequence of its pieces.

\* the hash seeds a Python process may draw at start (PYTHONHASHSEED unset)
HashSeeds == {0, 1}

\* str(hash(text)) of the built-in, salted per process: a sign and digits
\* that depend on the text and on the seed of the process
hash(text, seed) ==
    LET texts == <<"https://casa.sapo.pt/x.html", "https://casa.sapo.pt/y.html", "T2 in Lisboa", "Sunny 1BR", "Loft">>
        code == CHOOSE i \in 1..Len(texts) : texts[i] = text
        digits == <<ToString(code), ToString((code + 3 * seed) % 10), ToString(1 + seed)>>
    IN  IF (code + seed) % 2 = 1 THEN <<"-">> \o digits ELSE digits

\* CasaSapoAdapter._normalize: the PID, else the hash of the detail URL (of
\* the title when the entry has no detail URL)
casasapo_source_id(raw, seed) ==
    LET h == hash(IF raw.detail_url # None THEN raw.detail_url[1] ELSE raw.title, seed)
        a == IF h # <<>> /\ h[1] = "-" THEN Tail(h) ELSE h
        last10 == IF Len(a) <= 10 THEN a ELSE SubSeq(a, Len(a) - 9, Len(a))
        listing_id == IF raw.pid # None /\ raw.pid # Some("") THEN <<raw.pid[1]>> ELSE last10
    IN  <<"casasapo_">> \o listing_id

\* StreetEasyAdapter._parse_card: the last segment of the URL (given here
\* as split at "/"), else the hash of the title
streeteasy_source_id(card, seed) ==
    LET listing_id == IF card.url # None /\ card.url # Some(<<"">>) THEN <<card.url[1][Len(card.url[1])]>>
                      ELSE hash(card.title, seed)
    IN  <<"streeteasy_">> \o listing_id

\* BayutAdapter._normalize: raw.get('id', raw.get('externalID', ''))
bayut_source_id(raw) ==
    <<"bayut_">> \o (IF raw.id # None THEN <<raw.id[1]>>
                     ELSE IF raw.externalID # None THEN <<raw.externalID[1]>>
                     ELSE <<"">>)

\* what the sources serve: `listing` names the underlying listing
AdapterInputs ==
    [casasapo |->
        {[listing |-> "k1", pid |-> Some("31415"), detail_url |-> Some("https://casa.sapo.pt/x.html"), title |-> "T2 in Lisboa"],
         [listing |-> "k2", pid |-> None, detail_url |-> Some("https://casa.sapo.pt/y.html"), title |-> "T2 in Lisboa"],
         [listing |-> "k3", pid |-> None, detail_url |-> None, title |-> "T2 in Lisboa"]},
     streeteasy |->
        {[listing |-> "s1", url |-> Some(<<"https:", "", "streeteasy.com", "rental", "4711">>), title |-> "Sunny 1BR"],
         [listing |-> "s2", url |-> None, title |-> "Sunny 1BR"],
         [listing |-> "s3", url |-> None, title |-> "Loft"],
         [listing |-> "s4", url |-> None, title |-> "Loft"]},
     bayut |->
        {[listing |-> "b1", id |-> Some("7"), externalID |-> Some("e7")],
         [listing |-> "b2", id |-> None, externalID |-> Some("e8")],
         [listing |-> "b3", id |-> None, externalID |-> None],
         [listing |-> "b4", id |-> None, externalID |-> None]}]

\* one listing of one source is normalised in a process with hash seed
\* `seed`; the call before it is remembered
Normalize(source, raw, seed) ==
    /\ calc.name \in {"none", "normalize"}
    /\ calc' = [name |-> "normalize", source |-> source,
                listing |-> raw.listing, seed |-> seed,
                source_id |-> CASE source = "casasapo" -> casasapo_source_id(raw, seed)
                                [] source = "streeteasy" -> streeteasy_source_id(raw, seed)
                                [] source = "bayut" -> bayut_source_id(raw),
                earlier |-> IF calc.name = "normalize"
                            THEN [source |-> calc.source, listing |-> calc.listing, seed |-> calc.seed, source_id |-> calc.source_id]
                            ELSE [source |-> "none", listing |-> "none", seed |-> 0, source_id |-> <<>>]]
    /\ UNCHANGED <<store, now, ticks, op, pc, config, city_idx, source_idx,
                   all_apartments, city_new_apartments, results_by_city,
                   currency_service, runs, ev, mail, cleanups,
                   scoring_service>>

NextAdapters ==
    \E source \in DOMAIN AdapterInputs : \E raw \in AdapterInputs[source] :
        \E seed \in HashSeeds : Normalize(source, raw, seed)

SpecAdapters == Init /\ [][NextAdapters]_vars

\* ------------------------------------------------------- retry_with_backoff
\* the largest max_retries tried (the adapters use 3)
MaxRetries == 3

\* mutant of delay: the delay grows linearly
delay_Linear(backoff_factor, attempt) == backoff_factor * attempt
\* delay = backoff_factor**attempt (in Python x**0 is 1 for every x)
delay(backoff_factor, attempt) ==
    IF attempt = 0 THEN 1 ELSE backoff_factor ^ attempt

\* a function wrapped by retry_with_backoff(max_retries, backoff_factor) is
\* called: the wrapper is at the top of its loop, nothing has happened yet
RetryCall(max_retries, backoff_factor) ==
    /\ calc = NoCalc
    /\ calc' = [name |-> "retry", max_retries |-> max_retries,
                backoff_factor |-> backoff_factor, attempt |-> 0,
                at |-> "try", outcomes |-> <<>>, sleeps |-> <<>>,
                last_exception |-> None, returned |-> None, raised |-> None]
    /\ UNCHANGED <<store, now, ticks, op, pc, config, city_idx, source_idx,
                   all_apartments, city_new_apartments, results_by_city,
                   currency_service, runs, ev, mail, cleanups,
                   scoring_service>>

\* one pass of the loop up to the sleep: func returns ("ok"), raises an
\* exception of a type in `exceptions` ("listed") or of another type
\* ("other"); the value or exception of a call is named by its attempt.
\* After the last pass the loop ends and last_exception is raised.
Attempt(outcome) ==
    LET k == calc.attempt
        c == [calc EXCEPT !.outcomes = Append(@, outcome)]
    IN  /\ calc.name = "retry" /\ calc.at = "try"
        /\ calc' =
             IF outcome = "ok"
             THEN [c EXCEPT !.at = "done", !.returned = Some(<<"value", k>>)]
             ELSE IF outcome = "other"
             THEN [c EXCEPT !.at = "done", !.raised = Some(<<"other", k>>)]
             ELSE IF k < calc.max_retries
             THEN [c EXCEPT !.at = "sleep",
                            !.last_exception = Some(<<"listed", k>>)]
             ELSE [c EXCEPT !.at = "done",
                            !.last_exception = Some(<<"listed", k>>),
                            !.raised = Some(<<"listed", k>>)]
        /\ UNCHANGED <<store, now, ticks, op, pc, config, city_idx,
                       source_idx, all_apartments, city_new_apartments,
                       results_by_city, currency_service, runs, ev, mail,
                       cleanups, scoring_service>>

\* time.sleep(delay), and the loop goes on
Sleep ==
    /\ calc.name = "retry" /\ calc.at = "sleep"
    /\ calc' = [calc EXCEPT
                  !.sleeps = Append(@, delay(calc.backoff_factor, calc.attempt)),
                  !.attempt = @ + 1, !.at = "try"]
    /\ UNCHANGED <<store, now, ticks, op, pc, config, city_idx, source_idx,
                   all_apartments, city_new_apartments, results_by_city,
                   currency_service, runs, ev, mail, cleanups,
                   scoring_service>>

NextRetry ==
    \/ \E max_retries \in 0..MaxRetries :
          \E backoff_factor \in 0..3 :
             RetryCall(max_retries, backoff_factor)
    \/ \E outcome \in {"ok", "listed", "other"} : Attempt(outcome)
    \/ Sleep

SpecRetry == Init /\ [][NextRetry]_vars

\* ================================================================ claims
\* the source_ids of a list of apartments
Ids(apartments) == {apartments[i].source_id : i \in DOMAIN apartments}
\* source_id has a row with sent_in_email = true
Sent(db, s) == s \in DOMAIN db /\ db[s].sent_in_email
FilterReturned == op.name = "filter_new_listings" /\ ~op.raised

\* C1: a filter_new_listings call that returns, returns in input order exactly
\* the input apartments whose source_id had no row or an unsent row when the
\* call began; a sent one is never in the result; an empty batch gives <<>>.
C1_FilterReturnsUnsentInOrder ==
    [][(op'.name = "filter_new_listings" /\ ~op'.raised) =>
        op'.result = SelectSeq(op'.apartments,
                        LAMBDA apt : ~Sent(store, apt.source_id))]_vars

\* C1 witness: a two-listing batch whose first listing was already sent and
\* whose second was not: only the second is returned.
C1_Witness ==
    /\ FilterReturned
    /\ Len(op.apartments) = 2 /\ Len(op.result) = 1
    /\ op.result[1] = op.apartments[2]
    /\ Sent(store, op.apartments[1].source_id)

C3_Original ==
    [][\A s \in SourceIds :
        (Sent(store, s) /\ op'.name # "reset") => Sent(store', s)]_vars

\* C3 amended: a sent row stays sent for as long as the row exists, and
\* filter_new_listings does not return it while it exists; the row goes away
\* only by reset, or by cleanup_old_listings once its last_seen_at is older
\* than the cutoff.
C3_SentWhileRowExists ==
    [][\A s \in SourceIds : Sent(store, s) =>
        /\ s \in DOMAIN store' => store'[s].sent_in_email
        /\ (op'.name = "filter_new_listings" /\ ~op'.raised) =>
              s \notin Ids(op'.result)
        /\ s \notin DOMAIN store' =>
              \/ op'.name = "reset"
              \/ /\ op'.name = "cleanup_old_listings" /\ ~op'.raised
                 /\ store[s].last_seen_at < Cutoff(op'.days, now)]_vars

\* C3 witness: a listing sent earlier is seen again by a later
\* filter_new_listings call and is still sent and not returned.
C3_Witness ==
    /\ FilterReturned
    /\ \E s \in Ids(op.apartments) :
          /\ Sent(store, s)
          /\ store[s].sent_at[1] < store[s].last_seen_at
          /\ s \notin Ids(op.result)

\* C4 as claimed: mark_as_sent on an already-sent listing leaves its whole row
\* as it was, and an empty list changes nothing.
C4_Original ==
    [][(op'.name = "mark_as_sent" /\ ~op'.raised) =>
        /\ \A s \in Ids(op'.apartments) :
              Sent(store, s) => store'[s] = store[s]
        /\ op'.apartments = <<>> => store' = store]_vars

\* C5: a filter_new_listings call hit by a database error at any statement
\* raises to its caller and leaves the store exactly as it was.
C5_FilterAtomic ==
    [][(op'.name = "filter_new_listings" /\ op'.failAt # 0) =>
        op'.raised /\ store' = store]_vars

\* C5 witness: the error hit after the first apartment of the batch, which
\* was new and had been inserted in the transaction, and no row of it is left.
C5_Witness ==
    /\ op.name = "filter_new_listings" /\ op.raised
    /\ op.failAt >= 2
    /\ op.apartments[1].source_id \notin DOMAIN store

\* C6 as claimed: cleanup_old_listings(days) deletes exactly the rows with
\* last_seen_at < now - days (days is EXPIRY_DAYS only when it is omitted),
\* keeps every other row unchanged and returns the number of rows deleted.
C6_Original ==
    [][(op'.name = "cleanup_old_listings" /\ ~op'.raised) =>
        LET days == IF op'.days = None THEN EXPIRY_DAYS ELSE op'.days[1]
            old == {s \in DOMAIN store :
                      store[s].last_seen_at < now - days * Day}
        IN  /\ DOMAIN store' = DOMAIN store \ old
            /\ \A s \in DOMAIN store' : store'[s] = store[s]
            /\ op'.count = Cardinality(old)]_vars

\* C7: in a run, mark_as_sent is called only after send_daily_digest returned
\* success, and with exactly the top-N-per-city listings that were handed to
\* the digest and put in the message; the rows that become sent are among
\* them; and a step of a run that is not an email step with a successful
\* delivery (email skipped, disabled, no real recipient, nothing to send,
\* delivery failed) changes no row's sent_in_email: a row that was there
\* keeps it and a new row has it false.
C7_MarkOnlyAfterDelivery ==
    [][/\ mail'.marked # None =>
            /\ mail'.outcome = "sent"
            /\ mail'.marked[1] = mail'.handed
            /\ mail'.handed = mail'.digest
            /\ mail'.handed =
                  Flatten([i \in DOMAIN results_by_city' |->
                     [name |-> results_by_city'[i].name,
                      apartments |->
                         SubSeq(results_by_city'[i].apartments, 1,
                                Min(mail'.top_n,
                                    Len(results_by_city'[i].apartments)))]])
       /\ IF ev'.step = "email" /\ mail'.outcome = "sent"
          THEN \A s \in DOMAIN store' :
                  store'[s].sent_in_email =>
                     \/ s \in DOMAIN store /\ store[s].sent_in_email
                     \/ s \in Ids(mail'.handed)
          ELSE \A s \in DOMAIN store' :
                  IF s \in DOMAIN store
                  THEN store'[s].sent_in_email = store[s].sent_in_email
                  ELSE ~store'[s].sent_in_email]_vars

\* C7 witness: the digest was delivered with top_n = 1 and two listings, one
\* per city, which are now sent, while a listing of the first city that
\* ranked below the top pick is still unsent.
C7_Witness ==
    /\ pc = "cleanup"
    /\ mail.outcome = "sent" /\ mail.top_n = 1
    /\ Len(mail.handed) = 2 /\ mail.marked = Some(mail.handed)
    /\ \A s \in Ids(mail.handed) : Sent(store, s)
    /\ Len(results_by_city[1].apartments) = 2
    /\ ~Sent(store, results_by_city[1].apartments[2].source_id)

\* C8 as claimed: every run that has ended, by returning or by raising, has
\* called cleanup_old_listings exactly once.
C8_Original ==
    pc \in {"done", "aborted"} => cleanups = 1

\* C9: a pass of the source loop calls fetch_listings only on a registered
\* source whose adapter is available; whatever the pass raises, the loop goes
\* on to the next source of the same city, the listings accumulated before
\* are kept (all of them when the pass raised), and filter_new_listings runs
\* only after the last configured source.
C9_SourceErrorsContained ==
    [][/\ ev'.step = "source" =>
            /\ ev'.fetched =>
                  ev'.source \in ADAPTER_REGISTRY /\ ev'.world.available
            /\ pc' = "source" /\ city_idx' = city_idx
            /\ source_idx' = source_idx + 1
            /\ Len(all_apartments') >= Len(all_apartments)
            /\ SubSeq(all_apartments', 1, Len(all_apartments)) = all_apartments
            /\ ev'.raised => all_apartments' = all_apartments
            /\ results_by_city' = results_by_city
       /\ ev'.step = "filter" =>
            source_idx > Len(CityConfig(CityKeys[city_idx]).sources)]_vars

\* C9 witness: the last source of the city raised after it was asked for
\* its listings, and the two listings of an earlier source are still there.
C9_Witness ==
    /\ ev.step = "source" /\ ev.source = "streeteasy"
    /\ ev.fetched /\ ev.raised
    /\ Len(all_apartments) = 2
    /\ pc = "source"

C11_Original ==
    calc.name = "ScoringService" =>
        LET w == IF calc.weights = None THEN DefaultWeights
                 ELSE calc.weights[1]
            within == WeightTotal(w) - 1000 <= 10 /\ 1000 - WeightTotal(w) <= 10
        IN  /\ within <=> ~calc.raised
            /\ calc.raised <=> scoring_service = None


\* C12 (as claimed): score_apartments returns exactly those input apartments
\* that meet every must-have, have a price_usd and have
\* min_price <= price_usd <= max_price; an apartment failing one of the three
\* checks is excluded
C12_Original ==
    calc.name = "score_apartments" =>
        LET cfg == scoring_service[1]
            retained(apt) ==
                /\ meets_must_haves(apt, cfg.must_haves)
                /\ apt.price_usd # None
                /\ cfg.min_price <= apt.price_usd[1]
                /\ apt.price_usd[1] <= cfg.max_price
            given(apt) ==
                Cardinality({i \in DOMAIN calc.apartments :
                                calc.apartments[i] = apt})
            returned(apt) ==
                Cardinality({i \in DOMAIN calc.result :
                                [calc.result[i] EXCEPT !.score = None,
                                     !.score_breakdown = None] = apt})
        IN  /\ ~calc.raised
            /\ \A apt \in ScoringCatalog :
                  returned(apt) = IF retained(apt) THEN given(apt) ELSE 0
            /\ Len(calc.result)
                  = Cardinality({i \in DOMAIN calc.apartments :
                                    retained(calc.apartments[i])})


\* C13 (as claimed): for every budget with min_price <= max_price the price
\* sub-score is 100 at or below min_price, 0 at or above max_price and
\* 100 * (max_price - price) / (max_price - min_price) strictly between them
C13_Original ==
    calc.name = "_score_price" =>
        LET cfg == scoring_service[1]
            p == calc.price_usd
            r == calc.result
        IN  cfg.min_price <= cfg.max_price =>
              /\ p <= cfg.min_price => r.n = 100 * r.d
              /\ p >= cfg.max_price => r.n = 0
              /\ (cfg.min_price < p /\ p < cfg.max_price) =>
                    r.n * (cfg.max_price - cfg.min_price)
                       = 100 * (cfg.max_price - p) * r.d

\* C13 (amended): for every budget with min_price < max_price the price
\* sub-score is 100 at or below min_price, 0 at or above max_price and
\* 100 * (max_price - price) / (max_price - min_price) strictly between them;
\* for a budget with min_price = max_price it is 100 at or below that price
\* and 0 above it
C13_PriceSubScore ==
    calc.name = "_score_price" =>
        LET cfg == scoring_service[1]
            p == calc.price_usd
            r == calc.result
        IN  /\ cfg.min_price < cfg.max_price =>
                 /\ p <= cfg.min_price => r.n = 100 * r.d
                 /\ p >= cfg.max_price => r.n = 0
                 /\ (cfg.min_price < p /\ p < cfg.max_price) =>
                       r.n * (cfg.max_price - cfg.min_price)
                          = 100 * (cfg.max_price - p) * r.d
            /\ cfg.min_price = cfg.max_price =>
                 /\ p <= cfg.min_price => r.n = 100 * r.d
                 /\ p > cfg.max_price => r.n = 0

\* the price half way through the budget scored 50
C13_Witness ==
    /\ calc.name = "_score_price"
    /\ scoring_service[1].min_price = 250000
    /\ scoring_service[1].max_price = 400000
    /\ calc.price_usd = 325000
    /\ calc.result = Frac(50, 1)


\* C14 (as claimed): for every configured min_sqft and every apartment the
\* size sub-score is defined and lies in 0..100: 50 when sqft is unknown, 50
\* when sqft equals min_sqft, 100 when sqft is at least 1.5 times min_sqft,
\* 50 * sqft / min_sqft when sqft is below min_sqft, and it never decreases
\* as sqft grows
C14_Original ==
    calc.name = "_score_size" =>
        LET cfg == scoring_service[1]
            sqft == calc.sqft
        IN  /\ ~calc.raised
            /\ LET r == calc.result[1] IN
               /\ 0 <= r.n /\ r.n <= 100 * r.d
               /\ sqft = None => r.n = 50 * r.d
               /\ sqft = Some(cfg.min_sqft) => r.n = 50 * r.d
               /\ (sqft # None /\ 2 * sqft[1] >= 3 * cfg.min_sqft) =>
                     r.n = 100 * r.d
               /\ (sqft # None /\ sqft[1] < cfg.min_sqft) =>
                     r.n * cfg.min_sqft = 50 * sqft[1] * r.d
               /\ \A larger \in Sqfts \ {None} :
                     (sqft # None /\ larger[1] >= sqft[1]) =>
                        /\ ~score_size_raises(larger, cfg)
                        /\ score_size(larger, cfg).n * r.d
                              >= r.n * score_size(larger, cfg).d


\* C15 (as claimed): for every weight vector that validate accepts and every
\* apartment that passes filtering, the score is the weighted sum of the five
\* sub-scores rounded to one decimal and lies in 0..100, and score_breakdown
\* holds exactly the keys price, size, amenities, location, freshness, each
\* in 0..100
C15_Original ==
    calc.name = "score_apartments" =>
        \A i \in DOMAIN calc.result :
            LET w == scoring_service[1].weights
                b == calc.result[i].score_breakdown[1]
                score == calc.result[i].score[1]
                \* the weighted sum is n / d, the score is in tenths
                d == 1000 * b.price.d * b.size.d
                n == w.price * b.price.n * b.size.d
                     + w.size * b.size.n * b.price.d
                     + (w.amenities * b.amenities + w.location * b.location
                        + w.freshness * b.freshness) * b.price.d * b.size.d
            IN  /\ 2 * (10 * n - score * d) <= d
                /\ 2 * (score * d - 10 * n) <= d
                /\ 0 <= score /\ score <= 1000
                /\ DOMAIN b = {"price", "size", "amenities", "location",
                               "freshness"}
                /\ 0 <= b.price.n /\ b.price.n <= 100 * b.price.d
                /\ 0 <= b.size.n /\ b.size.n <= 100 * b.size.d
                /\ \A k \in {"amenities", "location", "freshness"} :
                      0 <= b[k] /\ b[k] <= 100


\* C16: the list returned by score_apartments is ordered by score, highest
\* first, and the apartments of equal score appear in the order they have in
\* the input list
C16_SortedStable ==
    (calc.name = "score_apartments" /\ ~calc.raised) =>
        LET result == calc.result
            listing(apt) ==
                [apt EXCEPT !.score = None, !.score_breakdown = None]
            \* the returned apartments of score v, and the input apartments
            \* that were returned with score v
            returned(v) ==
                SelectSeq(result, LAMBDA apt : apt.score = v)
            given(v) ==
                SelectSeq(calc.apartments,
                          LAMBDA apt : \E k \in DOMAIN result :
                                          /\ listing(result[k]) = apt
                                          /\ result[k].score = v)
        IN  /\ \A i, j \in DOMAIN result :
                  i < j => result[i].score[1] >= result[j].score[1]
            /\ \A k \in DOMAIN result :
                  [i \in DOMAIN returned(result[k].score) |->
                      listing(returned(result[k].score)[i])]
                     = given(result[k].score)

\* two listings of equal score, handed over with "t" before "a", were
\* returned in that order
C16_Witness ==
    /\ calc.name = "score_apartments" /\ ~calc.raised
    /\ calc.apartments = <<AptT, AptA>>
    /\ Len(calc.result) = 2
    /\ calc.result[1].source_id = "t"
    /\ calc.result[2].source_id = "a"
    /\ calc.result[1].score = calc.result[2].score


C18_Original ==
    [][(calc'.name = "convert_to_usd" /\ now' = now) =>
        LET cur == currency_service
            key == CacheKey(calc'.currency, "USD")
            reverse == CacheKey("USD", calc'.currency)
            fresh == /\ cur.cache_time # None
                     /\ now - cur.cache_time[1] < CACHE_DURATION
            obtained ==
                IF fresh /\ key \in DOMAIN cur.cache THEN Some(cur.cache[key])
                ELSE IF calc'.live # None
                        /\ calc'.currency \in DOMAIN calc'.live[1]
                THEN Some(Frac(calc'.live[1][calc'.currency].d,
                               calc'.live[1][calc'.currency].n))
                ELSE IF key \in DOMAIN FALLBACK_RATES
                THEN Some(FALLBACK_RATES[key])
                ELSE IF reverse \in DOMAIN FALLBACK_RATES
                THEN Some(Frac(FALLBACK_RATES[reverse].d,
                               FALLBACK_RATES[reverse].n))
                ELSE None
        IN  /\ ~calc'.raised
            /\ IF calc'.currency = "USD"
               THEN /\ calc'.value = Some(calc'.amount)
                    /\ calc'.requests = 0
                    /\ currency_service' = currency_service
               ELSE /\ calc'.value = None <=> obtained = None
                    /\ obtained # None =>
                          calc'.value[1] * obtained[1].d
                             = calc'.amount * obtained[1].n]_vars

\* C18 (amended): convert_to_usd returns the amount unchanged when
\* from_currency is USD, without any rate lookup or refresh; for any other
\* currency it returns amount times the obtained rate rounded to two
\* decimals, and it returns null exactly when no rate is obtainable from the
\* valid cache, a refresh, the fallback table entry, or the inverse of the
\* reverse fallback entry
C18_ConvertToUsdRounded ==
    [][(calc'.name = "convert_to_usd" /\ now' = now) =>
        LET cur == currency_service
            key == CacheKey(calc'.currency, "USD")
            reverse == CacheKey("USD", calc'.currency)
            fresh == /\ cur.cache_time # None
                     /\ now - cur.cache_time[1] < CACHE_DURATION
            obtained ==
                IF fresh /\ key \in DOMAIN cur.cache THEN Some(cur.cache[key])
                ELSE IF calc'.live # None
                        /\ calc'.currency \in DOMAIN calc'.live[1]
                THEN Some(Frac(calc'.live[1][calc'.currency].d,
                               calc'.live[1][calc'.currency].n))
                ELSE IF key \in DOMAIN FALLBACK_RATES
                THEN Some(FALLBACK_RATES[key])
                ELSE IF reverse \in DOMAIN FALLBACK_RATES
                THEN Some(Frac(FALLBACK_RATES[reverse].d,
                               FALLBACK_RATES[reverse].n))
                ELSE None
        IN  /\ ~calc'.raised
            /\ IF calc'.currency = "USD"
               THEN /\ calc'.value = Some(calc'.amount)
                    /\ calc'.requests = 0
                    /\ currency_service' = currency_service
               ELSE /\ calc'.value = None <=> obtained = None
                    /\ obtained # None =>
                          \* the hundredth nearest to amount * rate
                          /\ 2 * (calc'.value[1] * obtained[1].d
                                    - calc'.amount * obtained[1].n)
                                <= obtained[1].d
                          /\ 2 * (calc'.amount * obtained[1].n
                                    - calc'.value[1] * obtained[1].d)
                                <= obtained[1].d]_vars

\* 1000.00 EUR were converted at the live rate of 0.9 EUR for a USD:
\* 1111.11 USD, which is not the exact product
C18_Witness ==
    /\ calc.name = "convert_to_usd"
    /\ calc.currency = "EUR" /\ calc.amount = 100000
    /\ calc.requests = 1 /\ calc.live # None
    /\ calc.value = Some(111111)

\* C19: convert_from_usd returns a number for every target currency and every
\* cache/refresh state, never null and never an error: the amount itself for
\* USD, the amount at the cached or live rate when there is one, otherwise
\* the amount divided by the fallback rate of the currency, and the amount
\* unchanged for a currency with neither
C19_ConvertFromUsdTotal ==
    [][(calc'.name = "convert_from_usd" /\ now' = now) =>
        LET cur == currency_service
            key == CacheKey("USD", calc'.currency)
            back == CacheKey(calc'.currency, "USD")
            fresh == /\ cur.cache_time # None
                     /\ now - cur.cache_time[1] < CACHE_DURATION
            rate ==
                IF fresh /\ key \in DOMAIN cur.cache THEN Some(cur.cache[key])
                ELSE IF calc'.live # None
                        /\ calc'.currency \in DOMAIN calc'.live[1]
                THEN Some(calc'.live[1][calc'.currency])
                ELSE None
            v == calc'.value
            \* v is n / d to the nearest hundredth
            nearest(n, d) ==
                /\ 2 * (v.n * d - n * v.d) <= d * v.d
                /\ 2 * (n * v.d - v.n * d) <= d * v.d
        IN  /\ ~calc'.raised
            /\ v # None
            /\ v.d > 0
            /\ IF calc'.currency = "USD" THEN v.n = calc'.amount * v.d
               ELSE IF rate # None
               THEN nearest(calc'.amount * rate[1].n, rate[1].d)
               ELSE IF back \in DOMAIN FALLBACK_RATES
               THEN nearest(calc'.amount * FALLBACK_RATES[back].d,
                            FALLBACK_RATES[back].n)
               ELSE v.n = calc'.amount * v.d]_vars

\* with the live source down and nothing cached, 1000.00 USD became
\* 793.65 GBP at the fallback rate of 1.26 USD for a GBP
C19_Witness ==
    /\ calc.name = "convert_from_usd"
    /\ calc.currency = "GBP" /\ calc.amount = 100000
    /\ calc.requests = 1 /\ calc.live = None
    /\ calc.value = Frac(79365, 1)

\* C20: a rate lookup made less than 24 hours after the last successful
\* refresh, for a pair present in the cache, returns the cached rate without
\* contacting the live source; a lookup after expiry or for a pair missing
\* from the cache performs one batch refresh, after which the cache holds
\* both X_USD and USD_X for every currency the source returned, with X_USD
\* the inverse of USD_X
C20_CacheThenOneBatchRefresh ==
    [][(calc'.name \in {"convert_to_usd", "convert_from_usd"}
          /\ calc'.currency # "USD" /\ now' = now) =>
        LET cur == currency_service
            key == IF calc'.name = "convert_to_usd"
                   THEN CacheKey(calc'.currency, "USD")
                   ELSE CacheKey("USD", calc'.currency)
            hit == /\ cur.cache_time # None
                   /\ now - cur.cache_time[1] < 24 * 3600 * Second
                   /\ key \in DOMAIN cur.cache
            v == IF calc'.name = "convert_to_usd"
                 THEN Frac(calc'.value[1], 1) ELSE calc'.value
            after == currency_service'.cache
        IN  IF hit
            THEN /\ calc'.requests = 0
                 /\ currency_service' = currency_service
                 \* the value is the amount at the cached rate
                 /\ 2 * (v.n * cur.cache[key].d
                           - calc'.amount * cur.cache[key].n * v.d)
                       <= cur.cache[key].d * v.d
                 /\ 2 * (calc'.amount * cur.cache[key].n * v.d
                           - v.n * cur.cache[key].d)
                       <= cur.cache[key].d * v.d
            ELSE /\ calc'.requests = 1
                 /\ calc'.live = None => currency_service' = currency_service
                 /\ calc'.live # None =>
                       /\ DOMAIN after
                             = UNION {{<<"USD", c>>, <<c, "USD">>} :
                                         c \in DOMAIN calc'.live[1]}
                       /\ \A c \in DOMAIN calc'.live[1] :
                             /\ after[<<"USD", c>>] = calc'.live[1][c]
                             /\ after[<<c, "USD">>].n * after[<<"USD", c>>].n
                                   = after[<<c, "USD">>].d
                                        * after[<<"USD", c>>].d
                       /\ currency_service'.cache_time = Some(now)]_vars

\* a day after the rates were fetched a lookup found them expired and fetched
\* them again, in both directions
C20_Witness ==
    /\ calc.name = "convert_to_usd" /\ calc.currency = "EUR"
    /\ calc.cache_time # None
    /\ calc.t - calc.cache_time[1] >= CACHE_DURATION
    /\ calc.requests = 1 /\ calc.live # None
    /\ currency_service.cache_time = Some(calc.t)
    /\ {<<"USD", "EUR">>, <<"EUR", "USD">>} \subseteq DOMAIN currency_service.cache


\* C21: when the live refresh fails, or succeeds without a rate for the
\* requested pair, the failure never propagates out of convert_to_usd or
\* convert_from_usd: the rate comes from the fallback table (the direct
\* entry, else the inverse of the reverse pair), so 15000 AED with no live
\* rate converts to 4050 USD
C21_FallbackOnRefreshFailure ==
    [][(/\ calc'.name \in {"convert_to_usd", "convert_from_usd"}
        /\ calc'.currency # "USD" /\ now' = now
        /\ calc'.requests = 1
        /\ (calc'.live = None \/ calc'.currency \notin DOMAIN calc'.live[1]))
       => LET direct == IF calc'.name = "convert_to_usd"
                        THEN <<calc'.currency, "USD">>
                        ELSE <<"USD", calc'.currency>>
              reverse == <<direct[2], direct[1]>>
              v == IF calc'.name = "convert_to_usd" /\ calc'.value # None
                   THEN Frac(calc'.value[1], 1) ELSE calc'.value
              \* v is amount * n / d to the nearest hundredth
              nearest(n, d) ==
                  /\ v # None
                  /\ 2 * (v.n * d - calc'.amount * n * v.d) <= d * v.d
                  /\ 2 * (calc'.amount * n * v.d - v.n * d) <= d * v.d
          IN  /\ ~calc'.raised
              /\ direct \in DOMAIN FALLBACK_RATES =>
                    nearest(FALLBACK_RATES[direct].n, FALLBACK_RATES[direct].d)
              /\ (direct \notin DOMAIN FALLBACK_RATES
                    /\ reverse \in DOMAIN FALLBACK_RATES) =>
                    nearest(FALLBACK_RATES[reverse].d,
                            FALLBACK_RATES[reverse].n)
              /\ (calc'.currency = "AED" /\ calc'.amount = 1500000
                    /\ calc'.name = "convert_to_usd") =>
                    calc'.value = Some(405000)]_vars

\* the live source answered without a rate for AED and 15000.00 AED became
\* 4050.00 USD
C21_Witness ==
    /\ calc.name = "convert_to_usd"
    /\ calc.currency = "AED" /\ calc.amount = 1500000
    /\ calc.requests = 1 /\ calc.live # None
    /\ "AED" \notin DOMAIN calc.live[1]
    /\ ~calc.raised /\ calc.value = Some(405000)


\* C22 (as claimed): for every tracked currency X and every USD amount, when
\* both directions use the rates of one and the same live refresh,
\* convert_to_usd(convert_from_usd(amount, X), X) returns the original amount
C22_Original ==
    [][(/\ calc'.name = "round_trip" /\ now' = now
        /\ calc'.currency # "USD"
        /\ \/ calc'.requests = <<0, 0>>
           \/ /\ calc'.requests = <<1, 0>>
              /\ calc'.live # None
              /\ calc'.currency \in DOMAIN calc'.live[1])
       => calc'.value = Some(calc'.amount)]_vars

\* C22 (amended): under the same condition the round trip returns the
\* original amount to within 0.005 * (1 + 1 / rate) USD, rate being the
\* USD_X rate of the refresh, because each direction rounds to two decimals;
\* for an amount of whole hundredths and a rate above 1 it returns the
\* original amount
C22_RoundTripWithinRounding ==
    [][(/\ calc'.name = "round_trip" /\ now' = now
        /\ calc'.currency # "USD"
        /\ \/ calc'.requests = <<0, 0>>
           \/ /\ calc'.requests = <<1, 0>>
              /\ calc'.live # None
              /\ calc'.currency \in DOMAIN calc'.live[1])
       => LET rate == currency_service'.cache[<<"USD", calc'.currency>>]
              amount == calc'.amount
          IN  /\ ~calc'.raised
              /\ calc'.value # None
              /\ 2 * rate.n * (calc'.value[1] - amount) <= rate.n + rate.d
              /\ 2 * rate.n * (amount - calc'.value[1]) <= rate.n + rate.d
              /\ rate.n > rate.d => calc'.value = Some(amount)]_vars

\* 2500.05 USD went to EUR and back at the rates of one refresh (0.9 EUR for
\* a USD): 2250.04 or 2250.05 EUR, and not 2500.05 USD again
C22_Witness ==
    /\ calc.name = "round_trip"
    /\ calc.currency = "EUR" /\ calc.amount = 250005
    /\ calc.requests = <<1, 0>> /\ calc.live # None
    /\ calc.local \in {225004, 225005}
    /\ calc.value # None /\ calc.value # Some(250005)

\* C23 (as claimed): the source_id an adapter assigns is a function of the
\* underlying listing: the same listing normalised in two processes gets the
\* same source_id, also without a native id, and two different listings of
\* one source never get the same source_id
C23_Original ==
    (calc.name = "normalize" /\ calc.earlier.source = calc.source)
        => /\ calc.earlier.listing = calc.listing
                => calc.earlier.source_id = calc.source_id
           /\ calc.earlier.listing # calc.listing
                => calc.earlier.source_id # calc.source_id

\* C24: in a filter_new_listings call that returns, the first observation of
\* a source_id inserts one row with the listing's columns, first_seen_at
\* equal to last_seen_at, sent_in_email false and sent_at unset; every later
\* observation (of a row from an earlier call, or a second occurrence in the
\* same batch) sets last_seen_at to the current time and leaves every other
\* column of the row unchanged; rows of other source_ids are unchanged
C24_FilterFrame ==
    [][(op'.name = "filter_new_listings" /\ ~op'.raised) =>
        /\ DOMAIN store' = DOMAIN store \cup Ids(op'.apartments)
        /\ \A s \in DOMAIN store \ Ids(op'.apartments) : store'[s] = store[s]
        /\ \A s \in DOMAIN store \cap Ids(op'.apartments) :
              store'[s] = [store[s] EXCEPT !.last_seen_at = utcnow(now)]
        /\ \A s \in Ids(op'.apartments) \ DOMAIN store :
              LET at == {i \in DOMAIN op'.apartments :
                            op'.apartments[i].source_id = s}
                  first == op'.apartments[CHOOSE i \in at :
                                             \A j \in at : i <= j]
                  inserted == [source_name |-> first.source_name,
                               city |-> first.city, title |-> first.title,
                               price_usd |-> first.price_usd,
                               url |-> first.url,
                               first_seen_at |-> CURRENT_TIMESTAMP(now),
                               last_seen_at |-> CURRENT_TIMESTAMP(now),
                               sent_in_email |-> FALSE, sent_at |-> None]
              IN  store'[s] = IF Cardinality(at) = 1 THEN inserted
                              ELSE [inserted EXCEPT
                                       !.last_seen_at = utcnow(now)]]_vars

\* C24 witness: a call has just inserted one listing and has seen another
\* whose row is from an earlier second and was recorded with another title:
\* that row has the new last_seen_at and its old title and first_seen_at
C24_Witness ==
    /\ FilterReturned
    /\ \E i, j \in DOMAIN op.apartments :
          LET new == store[op.apartments[i].source_id]
              old == store[op.apartments[j].source_id]
          IN  /\ new.first_seen_at = new.last_seen_at
              /\ new.first_seen_at = CURRENT_TIMESTAMP(now)
              /\ old.first_seen_at < CURRENT_TIMESTAMP(now)
              /\ old.last_seen_at = utcnow(now)
              /\ old.title # op.apartments[j].title

C26_RetryWithBackoff ==
    calc.name = "retry" =>
        LET n == calc.max_retries
            b == calc.backoff_factor
            calls == Len(calc.outcomes)
            power[k \in 0..n] == IF k = 0 THEN 1 ELSE b * power[k - 1]
        IN  /\ calls <= n + 1
            /\ \A k \in 1..(calls - 1) : calc.outcomes[k] = "listed"
            /\ Len(calc.sleeps) <= n
            /\ Len(calc.sleeps) \in {calls - 1, calls}
            /\ Len(calc.sleeps) = calls <=> calc.at = "try"
            /\ calc.attempt = Len(calc.sleeps)
            /\ \A k \in DOMAIN calc.sleeps : calc.sleeps[k] = power[k - 1]
            /\ calc.at = "done" <=> calc.returned # None \/ calc.raised # None
            /\ calc.returned # None =>
                  /\ calc.raised = None
                  /\ calc.outcomes[calls] = "ok"
                  /\ calc.returned = Some(<<"value", calls - 1>>)
            /\ calc.raised # None =>
                  /\ calc.outcomes[calls] # "ok"
                  /\ calc.raised = Some(<<calc.outcomes[calls], calls - 1>>)
                  /\ calc.outcomes[calls] = "listed" =>
                        calls = n + 1 /\ Len(calc.sleeps) = n

\* C26 witness: with max_retries = 2 and backoff_factor = 3 the first two
\* attempts failed, the waits were 1 and 3, and the third attempt returned
C26_Witness ==
    /\ calc.name = "retry"
    /\ calc.max_retries = 2 /\ calc.backoff_factor = 3
    /\ calc.outcomes = <<"listed", "listed", "ok">>
    /\ calc.sleeps = <<1, 3>>
    /\ calc.returned = Some(<<"value", 2>>)

\* C27 (as claimed): cleanup_old_listings(days = d) uses the cutoff of
\* exactly d days before now for every non-negative integer d, d = 0
\* included (every row last seen before the current instant goes); only an
\* omitted days argument selects EXPIRY_DAYS
C27_Original ==
    [][(op'.name = "cleanup_old_listings" /\ ~op'.raised) =>
        LET cutoff == IF op'.days = None THEN utcnow(now) - EXPIRY_DAYS * Day
                      ELSE utcnow(now) - op'.days[1] * Day
        IN  /\ \A s \in DOMAIN store' : store'[s].last_seen_at >= cutoff
            /\ op'.count = Cardinality({s \in DOMAIN store :
                                           store[s].last_seen_at < cutoff})]_vars

\* C28: after any sequence of filter_new_listings, mark_as_sent,
\* cleanup_old_listings and reset calls from an empty store, every source_id
\* has at most one row (the store is keyed by the primary key source_id),
\* sent_at is set exactly in the rows with sent_in_email true,
\* first_seen_at <= last_seen_at in every row, and a row comes into being
\* only in a filter_new_listings call that was passed its source_id:
\* mark_as_sent on an untracked source_id creates no row
C28_StoreInvariant ==
    /\ [](\A s \in DOMAIN store :
             /\ s \in SourceIds
             /\ store[s].sent_in_email \in BOOLEAN
             /\ store[s].sent_at # None <=> store[s].sent_in_email
             /\ store[s].first_seen_at <= store[s].last_seen_at)
    /\ [][\A s \in DOMAIN store' \ DOMAIN store :
             /\ op'.name = "filter_new_listings" /\ ~op'.raised
             /\ s \in Ids(op'.apartments)]_vars

\* C28 witness: mark_as_sent was called with a tracked and an untracked
\* listing: the tracked one, seen again after its first sighting, is sent
\* with sent_at set, and the untracked one has no row
C28_Witness ==
    /\ op.name = "mark_as_sent" /\ ~op.raised
    /\ \E i, j \in DOMAIN op.apartments :
          /\ op.apartments[i].source_id \notin DOMAIN store
          /\ op.apartments[j].source_id \in DOMAIN store
          /\ LET row == store[op.apartments[j].source_id]
             IN  /\ row.sent_in_email /\ row.sent_at = Some(utcnow(now))
                 /\ row.first_seen_at < row.last_seen_at

C30_Original ==
    FilterReturned =>
        \A i, j \in DOMAIN op.result :
           op.result[i].source_id = op.result[j].source_id => i = j

====
